---- MODULE Spec2Model ----
(***************************************************************************)
(* A model of FAIRMeta's metadata engine (src/metadata_model.py): the      *)
(* record tree built by MetadataRecord.create_FDP_instance (_fill_fields,  *)
(* then _populate_FDP) and the passes that normalise it in place           *)
(* (_ensure_lists, _string_to_enum).                                       *)
(*                                                                         *)
(* Python values are tagged records:                                       *)
(*   [t |-> "none"]                       None                             *)
(*   [t |-> "str",  s |-> <<"e","n","g">>] a str, one entry per character  *)
(*   [t |-> "int",  i |-> 5]              an int                           *)
(*   [t |-> "list", a |-> 3]              a reference to list object 3 of  *)
(*                                        the heap (lists are mutable and  *)
(*                                        shared by reference)             *)
(*   [t |-> "dict", d |-> <<[k |-> key, v |-> value], ...>>]               *)
(*                                        a dict, in insertion order       *)
(*   [t |-> "names", l |-> <<"title">>]   the list of internal field names *)
(*                                        of one mapping entry             *)
(*   [t |-> "node", cls |-> "Dataset", f |-> fields]                       *)
(*                                        a pydantic model object; f maps  *)
(*                                        the attributes that are set      *)
(*   [t |-> "enum", cls |-> "DatasetTheme", e |-> "HEAL"]                  *)
(*   [t |-> "url",  u |-> <<...>>]        an AnyHttpUrl                    *)
(***************************************************************************)
EXTENDS Naturals, Sequences, FiniteSets, TLC

VARIABLES
  config,     \* FDP_obj.config: the configuration tree (None or a dict)
  api_data,   \* FDP_obj.api_data: the API payload (None or a dict)
  heap,       \* the list objects: heap[a] is the content of list a
  heap0,      \* the list objects as they were before the record was created
  rec,        \* the MetadataRecord object (NoRecord before and without one)
  err,        \* the exception the last call raised (NoErr: it returned)
  warned,     \* the fields warnings.warn was called for, in order
  hist,       \* the calls made so far, in order
  extraAllow, \* whether the schema classes are configured with extra='allow'
  snapshot,   \* cleaned, the dict validate() last built (NoSnapshot: none)
  rec2,       \* a second MetadataRecord made from the same config and api_data
  err2,       \* the exception the last call on the second record raised
  hist2       \* the calls made so far on the second record, in order

vars ==
  <<config, api_data, heap, heap0, rec, err, warned, hist, extraAllow, snapshot,
    rec2, err2, hist2>>


\* The number of normaliser calls made on one record.
MaxOps == 2

----------------------------------------------------------------------------
(* Values *)

None == [t |-> "none"]

Str(chars) == [t |-> "str", s |-> chars]

Int(n) == [t |-> "int", i |-> n]

ListRef(a) == [t |-> "list", a |-> a]

Dict(items) == [t |-> "dict", d |-> items]

Names(l) == [t |-> "names", l |-> l]

Enum(cls, e) == [t |-> "enum", cls |-> cls, e |-> e]

Url(chars) == [t |-> "url", u |-> chars]

KV(k, v) == [k |-> k, v |-> v]

\* A list written out, not yet an object of the heap: L(<<...>>)
L(elems) == [t |-> "llist", l |-> elems]

NoRecord == [t |-> "norecord"]

NoSnapshot == [t |-> "nosnapshot"]

NoErr == [kind |-> "none", info |-> ""]

Error(kind, info) == [kind |-> kind, info |-> info]

IsNode(v) == v.t = "node"

IsList(v) == v.t = "list"

\* dict.keys(), key in dict, dict[key]
Keys(items) == {items[i].k : i \in 1..Len(items)}

HasKey(items, key) == \E i \in 1..Len(items) : items[i].k = key

Lookup(items, key) == items[CHOOSE i \in 1..Len(items) : items[i].k = key].v

\* bool(value): None, "", 0, [] and {} are falsy; a model object is truthy.
Truthy(v, h) ==
  CASE v.t = "none" -> FALSE
    [] v.t = "str" -> v.s # <<>>
    [] v.t = "int" -> v.i # 0
    [] v.t = "list" -> h[v.a] # <<>>
    [] v.t = "dict" -> v.d # <<>>
    [] v.t = "names" -> v.l # <<>>
    [] OTHER -> TRUE

----------------------------------------------------------------------------
(* Strings: str.lower, str.upper, str(), repr() *)

LowerLetters ==
  <<"a","b","c","d","e","f","g","h","i","j","k","l","m",
    "n","o","p","q","r","s","t","u","v","w","x","y","z">>

UpperLetters ==
  <<"A","B","C","D","E","F","G","H","I","J","K","L","M",
    "N","O","P","Q","R","S","T","U","V","W","X","Y","Z">>

UpperChar(c) ==
  IF \E i \in 1..26 : LowerLetters[i] = c
  THEN UpperLetters[CHOOSE i \in 1..26 : LowerLetters[i] = c]
  ELSE c

LowerChar(c) ==
  IF \E i \in 1..26 : UpperLetters[i] = c
  THEN LowerLetters[CHOOSE i \in 1..26 : UpperLetters[i] = c]
  ELSE c

Upper(s) == [i \in 1..Len(s) |-> UpperChar(s[i])]

Lower(s) == [i \in 1..Len(s) |-> LowerChar(s[i])]

\* s[:n]
Prefix(s, n) == SubSeq(s, 1, IF Len(s) < n THEN Len(s) ELSE n)

Digits == <<"0","1","2","3","4","5","6","7","8","9">>

RECURSIVE IntStr(_)
IntStr(n) == IF n < 10 THEN <<Digits[n + 1]>> ELSE IntStr(n \div 10) \o <<Digits[(n % 10) + 1]>>

RECURSIVE Escaped(_)
Escaped(s) ==
  IF s = <<>> THEN <<>>
  ELSE (IF Head(s) \in {"'", "\\"} THEN <<"\\", Head(s)>> ELSE <<Head(s)>>) \o Escaped(Tail(s))

\* repr() of a str: double quotes when it holds ' and no ", single quotes otherwise.
StrRepr(s) ==
  LET has(c) == \E i \in 1..Len(s) : s[i] = c
  IN IF has("'") /\ ~has("\"") THEN <<"\"">> \o s \o <<"\"">>
     ELSE <<"'">> \o Escaped(s) \o <<"'">>

RECURSIVE Repr(_, _)
RECURSIVE ReprItems(_, _, _)
Repr(v, h) ==
  CASE v.t = "str" -> StrRepr(v.s)
    [] v.t = "int" -> IntStr(v.i)
    [] v.t = "none" -> <<"N","o","n","e">>
    [] v.t = "list" -> <<"[">> \o ReprItems(h[v.a], 1, h) \o <<"]">>
    [] v.t = "url" -> <<"U","r","l","(">> \o StrRepr(v.u) \o <<")">>
    [] OTHER -> <<"<", "o", "b", "j", ">">>

ReprItems(l, i, h) ==
  IF i > Len(l) THEN <<>>
  ELSE (IF i > 1 THEN <<",", " ">> ELSE <<>>) \o Repr(l[i], h) \o ReprItems(l, i + 1, h)

\* What an f-string puts for {value}: str(value).
Format(v, h) ==
  CASE v.t = "str" -> v.s
    [] v.t = "url" -> v.u
    [] OTHER -> Repr(v, h)

----------------------------------------------------------------------------
(* The target schema (schema_definitions_hri, sempyro.hri_dcat): for each   *)
(* class its fields in declaration order, the fields whose annotation is a *)
(* List, and the fields with no default (model_construct leaves them       *)
(* unset; the others start as None).                                       *)

ModelFields(cls) ==
  CASE cls = "MetadataRecord" -> <<"catalog">>
    [] cls = "Catalog" ->
         <<"title", "contact_point", "publisher", "creator", "license",
           "language", "homepage", "dataset">>
    [] cls = "Dataset" ->
         <<"identifier", "title", "keyword", "theme", "access_rights",
           "contact_point", "creator", "publisher", "language", "legal_basis",
           "status", "frequency", "purpose", "distribution">>
    [] cls = "Distribution" ->
         <<"title", "access_url", "license", "language", "status">>
    [] cls \in {"Agent", "HRIAgent"} ->
         <<"mbox", "identifier", "name", "homepage", "spatial", "type",
           "publisher_type", "publisher_note">>
    [] cls = "Kind" -> <<"hasEmail", "fn", "hasUrl">>
    [] cls = "HRIVCard" -> <<"hasEmail", "formatted_name", "contact_page">>

FieldNames(cls) == {ModelFields(cls)[i] : i \in 1..Len(ModelFields(cls))}

ListFields(cls) ==
  CASE cls = "Catalog" -> {"title", "creator", "language", "dataset"}
    [] cls = "Dataset" ->
         {"title", "keyword", "theme", "creator", "language", "legal_basis",
          "purpose", "distribution"}
    [] cls = "Distribution" -> {"title", "language"}
    [] cls \in {"Agent", "HRIAgent"} -> {"identifier", "name", "spatial"}
    [] cls = "Kind" -> {"hasUrl"}
    [] cls = "HRIVCard" -> {"contact_page"}
    [] OTHER -> {}

RequiredFields(cls) ==
  CASE cls = "MetadataRecord" -> {"catalog"}
    [] cls = "Catalog" -> {"title"}
    [] cls = "Dataset" -> {"identifier", "title"}
    [] cls = "Distribution" -> {"access_url"}
    [] cls \in {"Agent", "HRIAgent"} -> {"name"}
    [] cls = "Kind" -> {"fn"}
    [] cls = "HRIVCard" -> {"formatted_name"}
    [] OTHER -> {}

\* 'List' in str(field.annotation)
IsListType(cls, field) == field \in ListFields(cls)

\* cls.model_construct(): no validation; every field with a default is set to it.
ModelConstruct(cls) ==
  [t |-> "node", cls |-> cls,
   f |-> [x \in FieldNames(cls) \ RequiredFields(cls) |-> None]]

HasAttr(obj, name) == name \in DOMAIN obj.f

SetField(obj, name, value) ==
  [obj EXCEPT !.f = [x \in (DOMAIN obj.f) \cup {name} |->
                       IF x = name THEN value ELSE obj.f[x]]]

\* setattr(obj, name, value) on a pydantic model without validate_assignment:
\* a declared field is stored as given; any other name is stored only under
\* extra='allow' (MetadataRecord itself keeps pydantic's default) and raises
\* ValueError('"<class>" object has no field "<name>"') otherwise.
Setattr(obj, name, value, allow) ==
  IF name \in FieldNames(obj.cls) \/ (allow /\ obj.cls # "MetadataRecord")
  THEN [n |-> SetField(obj, name, value), err |-> NoErr]
  ELSE [n |-> obj, err |-> Error("ValueError", name)]

----------------------------------------------------------------------------
(* The vocabulary tables (mappings): lowercase label -> canonical value. *)

themes ==
  << KV(<<"h","e","a","l">>, Enum("DatasetTheme", "HEAL")),
     KV(<<"t","e","c","h">>, Enum("DatasetTheme", "TECH")) >>

access_rights ==
  << KV(<<"p","u","b","l","i","c">>, Enum("AccessRights", "public")),
     KV(<<"n","o","n","_","p","u","b","l","i","c">>, Enum("AccessRights", "non_public")) >>

frequencies ==
  << KV(<<"d","a","i","l","y">>, Url(<<"f","r","e","q","/","D","A","I","L","Y">>)) >>

statuses ==
  << KV(<<"c","o","m","p","l","e","t","e","d">>, Enum("DatasetStatus", "completed")),
     KV(<<"w","i","t","h","d","r","a","w","n">>, Enum("DatasetStatus", "withdrawn")) >>

licenses ==
  << KV(<<"c","c","0">>, Url(<<"l","i","c","/","c","c","0">>)) >>

Table(kind) ==
  CASE kind = "themes" -> themes
    [] kind = "access_rights" -> access_rights
    [] kind = "frequencies" -> frequencies
    [] kind = "statuses" -> statuses
    [] kind = "licenses" -> licenses

LanguageBase ==
  <<"h","t","t","p",":","/","/","p","u","b","l","i","c","a","t","i","o","n","s",
    ".","e","u","r","o","p","a",".","e","u","/","r","e","s","o","u","r","c","e",
    "/","a","u","t","h","o","r","i","t","y","/","l","a","n","g","u","a","g","e","/">>

LegalBasisBase ==
  <<"h","t","t","p","s",":","/","/","w","3","i","d",".","o","r","g","/","d","p","v","#">>

----------------------------------------------------------------------------
(* MetadataRecord._fill_fields *)

\* StructuralClass with the contact point made an Agent like the other parties.
StructuralClass_PartiesAlike(key) ==
  CASE key = "catalog" -> "Catalog"
    [] key = "dataset" -> "Dataset"
    [] key = "distribution" -> "Distribution"
    [] key \in {"creator", "publisher", "contact_point"} -> "Agent"

StructuralClass(key) ==
  CASE key = "catalog" -> "Catalog"
    [] key = "dataset" -> "Dataset"
    [] key = "distribution" -> "Distribution"
    [] key \in {"creator", "publisher"} -> "Agent"
    [] key = "contact_point" -> "Kind"

FillerKeys == {"catalog", "dataset", "distribution", "creator", "publisher", "contact_point"}

RECURSIVE FillFields(_, _, _, _)
RECURSIVE FillItems(_, _, _, _, _)

\* The child is kept in its parent, as far as it was filled.
FillInto(parent, key, sub) == [n |-> SetField(parent, key, sub.n), err |-> sub.err]

\* setattr(FDP_obj, key, <class>.model_construct()), then the recursive call.
FillChild(made, key, value, h, allow) ==
  IF made.err # NoErr THEN made
  ELSE FillInto(made.n, key, FillFields(made.n.f[key], value, h, allow))

\* FillKey with the test "if value" ahead of the isinstance(value, list)
\* branch: an empty list is dropped like any other falsy value.
FillKey_TruthFirst(obj, key, value, h, allow) ==
  IF value.t = "list" /\ Truthy(value, h) THEN Setattr(obj, key, value, allow)
  ELSE IF value.t = "list" THEN [n |-> obj, err |-> NoErr]
  ELSE IF key \in FillerKeys THEN
    FillChild(Setattr(obj, key, ModelConstruct(StructuralClass(key)), allow), key, value, h, allow)
  ELSE IF key = "mapping" THEN [n |-> obj, err |-> NoErr]
  ELSE IF Truthy(value, h) THEN Setattr(obj, key, value, allow)
  ELSE [n |-> obj, err |-> NoErr]

\* One iteration of the loop of _fill_fields, for the entry key: value.
FillKey(obj, key, value, h, allow) ==
  IF value.t = "list" THEN Setattr(obj, key, value, allow)
  ELSE IF key \in FillerKeys THEN
    FillChild(Setattr(obj, key, ModelConstruct(StructuralClass(key)), allow), key, value, h, allow)
  ELSE IF key = "mapping" THEN [n |-> obj, err |-> NoErr]
  ELSE IF Truthy(value, h) THEN Setattr(obj, key, value, allow)
  ELSE [n |-> obj, err |-> NoErr]

\* The loop goes on after entry i unless it raised.
FillRest(r, items, i, h, allow) ==
  IF r.err # NoErr THEN r ELSE FillItems(r.n, items, i + 1, h, allow)

FillItems(obj, items, i, h, allow) ==
  IF i > Len(items) THEN [n |-> obj, err |-> NoErr]
  ELSE FillRest(FillKey(obj, items[i].k, items[i].v, h, allow), items, i, h, allow)

\* _fill_fields that returns at once when config is not a dict.
FillFields_Lenient(obj, cfg, h, allow) ==
  IF cfg.t # "dict" THEN [n |-> obj, err |-> NoErr]
  ELSE FillItems(obj, cfg.d, 1, h, allow)

\* _fill_fields(FDP_obj, config): config.items() raises AttributeError on
\* anything but a dict; the handler prints and raises it again.
FillFields(obj, cfg, h, allow) ==
  IF cfg.t # "dict" THEN [n |-> obj, err |-> Error("AttributeError", "items")]
  ELSE FillItems(obj, cfg.d, 1, h, allow)

----------------------------------------------------------------------------
(* MetadataRecord._populate_FDP *)

\* for internal_field in internal_fields: the names a mapping entry lists
\* (a str iterates over its characters, a dict over its keys).
IterNames(v) ==
  CASE v.t = "names" -> v.l
    [] v.t = "str" -> v.s
    [] v.t = "dict" -> [i \in 1..Len(v.d) |-> v.d[i].k]

WithHeap(s, h) == [n |-> s.n, h |-> h, err |-> s.err]

\* PopulateField with FDP_obj.keyword.extend(value) in place of the
\* concatenation into a new list.
PopulateField_Extend(obj, internal_field, value, h, allow) ==
  IF ~Truthy(value, h) THEN [n |-> obj, h |-> h, err |-> NoErr]
  ELSE IF internal_field = "keyword" /\ ~HasAttr(obj, "keyword")
  THEN [n |-> obj, h |-> h, err |-> Error("AttributeError", "keyword")]
  ELSE IF internal_field = "keyword" /\ IsList(obj.f["keyword"])
  THEN IF ~IsList(value)
       THEN [n |-> obj, h |-> h, err |-> Error("TypeError", "keyword")]
       ELSE [n |-> obj, err |-> NoErr,
             h |-> [h EXCEPT ![obj.f["keyword"].a] = @ \o h[value.a]]]
  ELSE WithHeap(Setattr(obj, internal_field, value, allow), h)

\* PopulateField without the test of api_data[api_field]: a falsy value is
\* written like any other.
PopulateField_NoTruthTest(obj, internal_field, value, h, allow) ==
  IF internal_field = "keyword" /\ ~HasAttr(obj, "keyword")
  THEN [n |-> obj, h |-> h, err |-> Error("AttributeError", "keyword")]
  ELSE IF internal_field = "keyword" /\ IsList(obj.f["keyword"]) /\ IsList(value)
  THEN WithHeap(Setattr(obj, internal_field, ListRef(Len(h) + 1), allow),
                Append(h, h[obj.f["keyword"].a] \o h[value.a]))
  ELSE WithHeap(Setattr(obj, internal_field, value, allow), h)

\* The body of the innermost loop: one internal field of one mapping entry.
PopulateField(obj, internal_field, value, h, allow) ==
  IF ~Truthy(value, h) THEN [n |-> obj, h |-> h, err |-> NoErr]
  ELSE IF internal_field = "keyword" /\ ~HasAttr(obj, "keyword")
  THEN [n |-> obj, h |-> h, err |-> Error("AttributeError", "keyword")]
  ELSE IF internal_field = "keyword" /\ IsList(obj.f["keyword"])
  THEN IF ~IsList(value)
       THEN [n |-> obj, h |-> h, err |-> Error("TypeError", "keyword")]
       ELSE WithHeap(Setattr(obj, internal_field, ListRef(Len(h) + 1), allow),
                     Append(h, h[obj.f["keyword"].a] \o h[value.a]))
  ELSE WithHeap(Setattr(obj, internal_field, value, allow), h)

RECURSIVE PopulateFields(_, _, _, _, _, _)
PopulateFieldsRest(r, names, j, value, allow) ==
  IF r.err # NoErr THEN r ELSE PopulateFields(r.n, names, j + 1, value, r.h, allow)

PopulateFields(obj, names, j, value, h, allow) ==
  IF j > Len(names) THEN [n |-> obj, h |-> h, err |-> NoErr]
  ELSE PopulateFieldsRest(PopulateField(obj, names[j], value, h, allow),
                          names, j, value, allow)

\* case "mapping": the entries of the directive, in order.
RECURSIVE PopulateMapping(_, _, _, _, _, _)
PopulateMappingRest(r, api, entries, i, allow) ==
  IF r.err # NoErr THEN r ELSE PopulateMapping(r.n, api, entries, i + 1, r.h, allow)

PopulateMapping(obj, api, entries, i, h, allow) ==
  IF i > Len(entries) THEN [n |-> obj, h |-> h, err |-> NoErr]
  ELSE IF ~HasKey(api.d, entries[i].k)
  THEN PopulateMapping(obj, api, entries, i + 1, h, allow)
  ELSE IF entries[i].v.t \in {"none", "int"}
  THEN [n |-> obj, h |-> h, err |-> Error("TypeError", "internal_fields")]
  ELSE PopulateMappingRest(PopulateFields(obj, IterNames(entries[i].v), 1,
                                          Lookup(api.d, entries[i].k), h, allow),
                           api, entries, i, allow)

RECURSIVE PopulateFDP(_, _, _, _, _)
RECURSIVE PopulateItems(_, _, _, _, _, _)

PopulateInto(parent, field, sub) ==
  [n |-> SetField(parent, field, sub.n), h |-> sub.h, err |-> sub.err]

PopulateRest(r, api, items, i, allow) ==
  IF r.err # NoErr THEN r ELSE PopulateItems(r.n, api, items, i + 1, r.h, allow)

\* PopulateKey that resets the field of every other configuration key.
PopulateKey_Resets(obj, api, field, value, h, allow) ==
  IF field \in {"catalog", "dataset", "distribution"} THEN
    IF ~HasAttr(obj, field)
    THEN [n |-> obj, h |-> h, err |-> Error("AttributeError", field)]
    ELSE PopulateInto(obj, field, PopulateFDP(obj.f[field], api, value, h, allow))
  ELSE IF field = "mapping" /\ value.t = "dict"
  THEN PopulateMapping(obj, api, value.d, 1, h, allow)
  ELSE [n |-> IF HasAttr(obj, field) THEN SetField(obj, field, None) ELSE obj,
        h |-> h, err |-> NoErr]

\* One iteration of the loop of _populate_FDP, for the entry field: value.
PopulateKey(obj, api, field, value, h, allow) ==
  IF field \in {"catalog", "dataset", "distribution"} THEN
    IF ~HasAttr(obj, field)
    THEN [n |-> obj, h |-> h, err |-> Error("AttributeError", field)]
    ELSE PopulateInto(obj, field, PopulateFDP(obj.f[field], api, value, h, allow))
  ELSE IF field = "mapping" /\ value.t = "dict"
  THEN PopulateMapping(obj, api, value.d, 1, h, allow)
  ELSE [n |-> obj, h |-> h, err |-> NoErr]

PopulateItems(obj, api, items, i, h, allow) ==
  IF i > Len(items) THEN [n |-> obj, h |-> h, err |-> NoErr]
  ELSE PopulateRest(PopulateKey(obj, api, items[i].k, items[i].v, h, allow),
                    api, items, i, allow)

\* _populate_FDP(FDP_obj, api_data, config)
PopulateFDP(obj, api, cfg, h, allow) ==
  IF cfg.t # "dict" THEN [n |-> obj, h |-> h, err |-> Error("AttributeError", "items")]
  ELSE PopulateItems(obj, api, cfg.d, 1, h, allow)

----------------------------------------------------------------------------
(* MetadataRecord.create_FDP_instance *)

\* An exception leaves the caller without a record.
Returned(r) == IF r.err # NoErr THEN [n |-> NoRecord, h |-> r.h, err |-> r.err] ELSE r

\* if FDP_obj.api_data is not None: _populate_FDP(FDP_obj, api_data, config)
AfterFill(filled, cfg, api, h, allow) ==
  IF filled.err # NoErr THEN [n |-> NoRecord, h |-> h, err |-> filled.err]
  ELSE IF api = None THEN [n |-> filled.n, h |-> h, err |-> NoErr]
  ELSE Returned(PopulateFDP(filled.n, api, cfg, h, allow))

CreateFDPInstance(cfg, api, h, allow) ==
  IF cfg = None THEN [n |-> ModelConstruct("MetadataRecord"), h |-> h, err |-> NoErr]
  ELSE AfterFill(FillFields(ModelConstruct("MetadataRecord"), cfg, h, allow),
                 cfg, api, h, allow)

----------------------------------------------------------------------------
(* MetadataRecord._ensure_lists *)

RECURSIVE EnsureLists(_, _, _)
RECURSIVE EnsureFrom(_, _, _, _)

\* EnsureShape with "len(value) >= 1" for "len(value) == 1": the first
\* element of a longer list is taken.
EnsureShape_TakeFirst(obj, field_name, value, h, w) ==
  LET is_list_type == IsListType(obj.cls, field_name)
  IN IF is_list_type /\ ~IsList(value) /\ value # None
     THEN [n |-> SetField(obj, field_name, ListRef(Len(h) + 1)), h |-> Append(h, <<value>>),
           w |-> w, err |-> NoErr]
     ELSE IF ~is_list_type /\ IsList(value)
     THEN IF Len(h[value.a]) >= 1
          THEN [n |-> SetField(obj, field_name, h[value.a][1]), h |-> h,
                w |-> Append(w, field_name), err |-> NoErr]
          ELSE [n |-> obj, h |-> h, w |-> w, err |-> Error("TypeError", field_name)]
     ELSE [n |-> obj, h |-> h, w |-> w, err |-> NoErr]

\* EnsureShape that turns an empty list in a scalar field into None.
EnsureShape_EmptyToNone(obj, field_name, value, h, w) ==
  LET is_list_type == IsListType(obj.cls, field_name)
  IN IF is_list_type /\ ~IsList(value) /\ value # None
     THEN [n |-> SetField(obj, field_name, ListRef(Len(h) + 1)), h |-> Append(h, <<value>>),
           w |-> w, err |-> NoErr]
     ELSE IF ~is_list_type /\ IsList(value)
     THEN IF Len(h[value.a]) = 1
          THEN [n |-> SetField(obj, field_name, h[value.a][1]), h |-> h,
                w |-> Append(w, field_name), err |-> NoErr]
          ELSE IF Len(h[value.a]) = 0
          THEN [n |-> SetField(obj, field_name, None), h |-> h, w |-> w, err |-> NoErr]
          ELSE [n |-> obj, h |-> h, w |-> w, err |-> Error("TypeError", field_name)]
     ELSE [n |-> obj, h |-> h, w |-> w, err |-> NoErr]

\* The cardinality test of one field, after the descent into a nested model:
\* wrap, unwrap with a warning, or raise TypeError naming the field.
EnsureShape(obj, field_name, value, h, w) ==
  LET is_list_type == IsListType(obj.cls, field_name)
  IN IF is_list_type /\ ~IsList(value) /\ value # None
     THEN [n |-> SetField(obj, field_name, ListRef(Len(h) + 1)), h |-> Append(h, <<value>>),
           w |-> w, err |-> NoErr]
     ELSE IF ~is_list_type /\ IsList(value)
     THEN IF Len(h[value.a]) = 1
          THEN [n |-> SetField(obj, field_name, h[value.a][1]), h |-> h,
                w |-> Append(w, field_name), err |-> NoErr]
          ELSE [n |-> obj, h |-> h, w |-> w, err |-> Error("TypeError", field_name)]
     ELSE [n |-> obj, h |-> h, w |-> w, err |-> NoErr]

\* After _ensure_lists(value) on a nested model: the same object, normalised.
EnsureNested(obj, field_name, sub) ==
  IF sub.err # NoErr
  THEN [n |-> SetField(obj, field_name, sub.n), h |-> sub.h, w |-> sub.w, err |-> sub.err]
  ELSE EnsureShape(SetField(obj, field_name, sub.n), field_name, sub.n, sub.h, sub.w)

\* One iteration of the loop of _ensure_lists.
EnsureField(obj, field_name, h, w) ==
  IF ~HasAttr(obj, field_name)
  THEN [n |-> obj, h |-> h, w |-> w, err |-> Error("AttributeError", field_name)]
  ELSE IF IsNode(obj.f[field_name])
  THEN EnsureNested(obj, field_name, EnsureLists(obj.f[field_name], h, w))
  ELSE EnsureShape(obj, field_name, obj.f[field_name], h, w)

EnsureRest(r, i) == IF r.err # NoErr THEN r ELSE EnsureFrom(r.n, i + 1, r.h, r.w)

EnsureFrom(obj, i, h, w) ==
  IF i > Len(ModelFields(obj.cls)) THEN [n |-> obj, h |-> h, w |-> w, err |-> NoErr]
  ELSE EnsureRest(EnsureField(obj, ModelFields(obj.cls)[i], h, w), i)

\* _ensure_lists(FDP_obj)
EnsureLists(obj, h, w) == EnsureFrom(obj, 1, h, w)

----------------------------------------------------------------------------
(* MetadataRecord._to_enum, _language_transformation, _legal_basis_transformation *)

\* LanguageTransformation with "len(value) >= 2" for "len(value) >= 3".
LanguageTransformation_TwoChars(value, h) ==
  CASE value.t = "str" ->
         IF Len(value.s) >= 2
         THEN [v |-> Str(LanguageBase \o Upper(Prefix(value.s, 3))), err |-> NoErr]
         ELSE [v |-> value, err |-> Error("ValueError", "language")]
    [] value.t = "list" ->
         IF Len(h[value.a]) >= 2
         THEN [v |-> value, err |-> Error("AttributeError", "upper")]
         ELSE [v |-> value, err |-> Error("ValueError", "language")]
    [] OTHER -> [v |-> value, err |-> Error("TypeError", "len")]

\* len(value) >= 3, then value[:3].upper() after the authority's base URI.
LanguageTransformation(value, h) ==
  CASE value.t = "str" ->
         IF Len(value.s) >= 3
         THEN [v |-> Str(LanguageBase \o Upper(Prefix(value.s, 3))), err |-> NoErr]
         ELSE [v |-> value, err |-> Error("ValueError", "language")]
    [] value.t = "list" ->
         IF Len(h[value.a]) >= 3
         THEN [v |-> value, err |-> Error("AttributeError", "upper")]
         ELSE [v |-> value, err |-> Error("ValueError", "language")]
    [] OTHER -> [v |-> value, err |-> Error("TypeError", "len")]

LegalBasisTransformation(value, h) ==
  [v |-> Str(LegalBasisBase \o Format(value, h)), err |-> NoErr]

\* ', '.join(kind.keys())
RECURSIVE JoinKeys(_, _)
JoinKeys(items, i) ==
  IF i > Len(items) THEN <<>>
  ELSE (IF i > 1 THEN <<",", " ">> ELSE <<>>) \o items[i].k \o JoinKeys(items, i + 1)

\* ValueError(f"{value} incorrect or not supported. Supported values: ...")
TableError(value, kind, h) ==
  [kind |-> "ValueError", info |-> kind,
   msg |-> Format(value, h)
             \o <<" ","i","n","c","o","r","r","e","c","t"," ","o","r"," ","n","o","t"," ",
                  "s","u","p","p","o","r","t","e","d","."," ","S","u","p","p","o","r","t",
                  "e","d"," ","v","a","l","u","e","s",":"," ">>
             \o JoinKeys(Table(kind), 1)]

\* TableLookup with kind[value] for kind[value.lower()].
TableLookup_CaseSensitive(value, kind, h) ==
  IF value.t = "str" /\ HasKey(Table(kind), value.s)
  THEN [v |-> Lookup(Table(kind), value.s), err |-> NoErr]
  ELSE [v |-> value, err |-> TableError(value, kind, h)]

\* kind[value.lower()]; whatever fails inside the try becomes a ValueError.
TableLookup(value, kind, h) ==
  IF value.t = "str" /\ HasKey(Table(kind), Lower(value.s))
  THEN [v |-> Lookup(Table(kind), Lower(value.s)), err |-> NoErr]
  ELSE [v |-> value, err |-> TableError(value, kind, h)]

ToEnum(value, kind, h) ==
  CASE kind = "language" -> LanguageTransformation(value, h)
    [] kind = "legal_basis" -> LegalBasisTransformation(value, h)
    [] OTHER -> TableLookup(value, kind, h)

----------------------------------------------------------------------------
(* MetadataRecord._string_to_enum *)

\* IsInstance with a DistributionStatus taken for a DatasetStatus.
IsInstance_EitherStatus(v, cls) ==
  CASE cls = "AnyHttpUrl" -> v.t = "url"
    [] cls = "DatasetStatus" -> v.t = "enum" /\ v.cls \in {"DatasetStatus", "DistributionStatus"}
    [] OTHER -> v.t = "enum" /\ v.cls = cls

IsInstance(v, cls) ==
  CASE cls = "AnyHttpUrl" -> v.t = "url"
    [] OTHER -> v.t = "enum" /\ v.cls = cls

\* setattr(FDP_obj, field_name, _to_enum(value, kind))
Converted(obj, field_name, c, h) ==
  IF c.err # NoErr THEN [n |-> obj, h |-> h, err |-> c.err]
  ELSE [n |-> SetField(obj, field_name, c.v), h |-> h, err |-> NoErr]

ConvertScalar(obj, field_name, value, kind, h) ==
  Converted(obj, field_name, ToEnum(value, kind, h), h)

\* for position, x in enumerate(value): value[position] = _to_enum(..., kind)
\* unless value[position] is already an instance of cls. whole: the argument
\* is the list itself instead of its element.
RECURSIVE ConvertList(_, _, _, _, _, _)
ConvertListRest(c, a, position, kind, cls, whole, h) ==
  IF c.err # NoErr THEN [h |-> h, err |-> c.err]
  ELSE ConvertList(a, position + 1, kind, cls, whole, [h EXCEPT ![a][position] = c.v])

ConvertList(a, position, kind, cls, whole, h) ==
  IF position > Len(h[a]) THEN [h |-> h, err |-> NoErr]
  ELSE IF IsInstance(h[a][position], cls)
  THEN ConvertList(a, position + 1, kind, cls, whole, h)
  ELSE ConvertListRest(ToEnum(IF whole THEN ListRef(a) ELSE h[a][position], kind, h),
                       a, position, kind, cls, whole, h)

InObject(obj, l) == [n |-> obj, h |-> l.h, err |-> l.err]

\* The match statement on field_name.
MatchField(obj, field_name, value, h) ==
  LET same == [n |-> obj, h |-> h, err |-> NoErr]
      inList(kind, cls, whole) == InObject(obj, ConvertList(value.a, 1, kind, cls, whole, h))
  IN CASE field_name = "access_rights" ->
            IF ~IsInstance(value, "AccessRights")
            THEN ConvertScalar(obj, field_name, value, "access_rights", h) ELSE same
       [] field_name = "theme" ->
            IF IsList(value) THEN inList("themes", "DatasetTheme", FALSE)
            ELSE IF ~IsInstance(obj, "DatasetTheme")
            THEN ConvertScalar(obj, field_name, value, "themes", h) ELSE same
       [] field_name = "language" ->
            IF IsList(value) THEN inList("language", "AnyHttpUrl", FALSE)
            ELSE IF ~IsInstance(obj, "AnyHttpUrl")
            THEN ConvertScalar(obj, field_name, value, "language", h) ELSE same
       [] field_name = "license" ->
            IF ~IsInstance(value, "AnyHttpUrl")
            THEN ConvertScalar(obj, field_name, value, "licenses", h) ELSE same
       [] field_name = "legal_basis" ->
            IF IsList(value) THEN inList("legal_basis", "AnyHttpUrl", TRUE)
            ELSE IF ~IsInstance(value, "AnyHttpUrl")
            THEN ConvertScalar(obj, field_name, value, "legal_basis", h) ELSE same
       [] field_name = "status" ->
            IF ~IsInstance(value, "DatasetStatus")
            THEN ConvertScalar(obj, field_name, value, "statuses", h) ELSE same
       [] field_name = "frequency" ->
            IF ~IsInstance(obj, "AnyHttpUrl")
            THEN ConvertScalar(obj, field_name, value, "frequencies", h) ELSE same
       [] OTHER -> same

RECURSIVE StringToEnum(_, _)
RECURSIVE StringToEnumFrom(_, _, _)
RECURSIVE StringToEnumElements(_, _, _)

\* for v in value: if isinstance(v, BaseModel): _string_to_enum(v)
\* The element is changed in place, in the list that holds it.
ElementsRest(sub, a, i) ==
  IF sub.err # NoErr THEN [h |-> [sub.h EXCEPT ![a][i] = sub.n], err |-> sub.err]
  ELSE StringToEnumElements(a, i + 1, [sub.h EXCEPT ![a][i] = sub.n])

StringToEnumElements(a, i, h) ==
  IF i > Len(h[a]) THEN [h |-> h, err |-> NoErr]
  ELSE IF ~IsNode(h[a][i]) THEN StringToEnumElements(a, i + 1, h)
  ELSE ElementsRest(StringToEnum(h[a][i], h), a, i)

\* After the descent into a nested model, the match on the same object.
MatchNested(obj, field_name, sub) ==
  IF sub.err # NoErr
  THEN [n |-> SetField(obj, field_name, sub.n), h |-> sub.h, err |-> sub.err]
  ELSE MatchField(SetField(obj, field_name, sub.n), field_name, sub.n, sub.h)

\* After the descent into the models a list holds, the match on the list.
MatchAfterElements(obj, field_name, els) ==
  IF els.err # NoErr THEN [n |-> obj, h |-> els.h, err |-> els.err]
  ELSE MatchField(obj, field_name, obj.f[field_name], els.h)

\* One iteration of the loop of _string_to_enum.
StringToEnumField(obj, field_name, h) ==
  IF ~HasAttr(obj, field_name)
  THEN [n |-> obj, h |-> h, err |-> Error("AttributeError", field_name)]
  ELSE IF ~Truthy(obj.f[field_name], h) THEN [n |-> obj, h |-> h, err |-> NoErr]
  ELSE IF IsNode(obj.f[field_name])
  THEN MatchNested(obj, field_name, StringToEnum(obj.f[field_name], h))
  ELSE IF IsList(obj.f[field_name])
  THEN MatchAfterElements(obj, field_name, StringToEnumElements(obj.f[field_name].a, 1, h))
  ELSE MatchField(obj, field_name, obj.f[field_name], h)

StringToEnumRest(r, i) == IF r.err # NoErr THEN r ELSE StringToEnumFrom(r.n, i + 1, r.h)

StringToEnumFrom(obj, i, h) ==
  IF i > Len(ModelFields(obj.cls)) THEN [n |-> obj, h |-> h, err |-> NoErr]
  ELSE StringToEnumRest(StringToEnumField(obj, ModelFields(obj.cls)[i], h), i)

\* _string_to_enum(FDP_obj)
StringToEnum(obj, h) == StringToEnumFrom(obj, 1, h)

----------------------------------------------------------------------------
(* The constructors HRIAgent and HRIVCard (sempyro.hri_dcat): the object is *)
(* validated when it is made. Of the validation the model keeps the        *)
(* mandatory fields and the declared cardinalities; a list is copied.      *)

ValidKwargs(cls, kwargs) ==
  /\ \A x \in RequiredFields(cls) : x \in DOMAIN kwargs /\ kwargs[x] # None
  /\ \A x \in DOMAIN kwargs : kwargs[x] # None => (IsList(kwargs[x]) <=> IsListType(cls, x))

RECURSIVE ConstructFrom(_, _, _, _)
ConstructFrom(node, kwargs, i, h) ==
  IF i > Len(ModelFields(node.cls)) THEN [n |-> node, h |-> h, err |-> NoErr]
  ELSE IF ModelFields(node.cls)[i] \notin DOMAIN kwargs
  THEN ConstructFrom(SetField(node, ModelFields(node.cls)[i], None), kwargs, i + 1, h)
  ELSE IF IsList(kwargs[ModelFields(node.cls)[i]])
  THEN ConstructFrom(SetField(node, ModelFields(node.cls)[i], ListRef(Len(h) + 1)), kwargs,
                     i + 1, Append(h, h[kwargs[ModelFields(node.cls)[i]].a]))
  ELSE ConstructFrom(SetField(node, ModelFields(node.cls)[i], kwargs[ModelFields(node.cls)[i]]),
                     kwargs, i + 1, h)

Construct(cls, kwargs, h) ==
  IF ~ValidKwargs(cls, kwargs)
  THEN [n |-> None, h |-> h, err |-> Error("ValidationError", cls)]
  ELSE ConstructFrom([t |-> "node", cls |-> cls, f |-> <<>>], kwargs, 1, h)

----------------------------------------------------------------------------
(* MetadataRecord._agent_to_HRIAgent, _create_HRIAgent, _kind_to_HRIVCard,  *)
(* _create_HRIVCard                                                        *)

\* kwargs: the entries always passed, then those passed when not None; each
\* entry is <<keyword, attribute read>>.
Kwargs(node, always, optional) ==
  [x \in {e[1] : e \in always} \cup {e[1] : e \in {o \in optional : node.f[o[2]] # None}} |->
     node.f[(CHOOSE e \in always \cup optional : e[1] = x)[2]]]

\* The first attribute read that is not set, if any.
FirstUnset(node, reads) ==
  IF \E i \in 1..Len(reads) : ~HasAttr(node, reads[i])
  THEN reads[CHOOSE i \in 1..Len(reads) :
               ~HasAttr(node, reads[i]) /\ \A j \in 1..(i - 1) : HasAttr(node, reads[j])]
  ELSE ""

CreateHRIAgent(agent, h) ==
  IF FirstUnset(agent, ModelFields("Agent")) # ""
  THEN [n |-> None, h |-> h,
        err |-> Error("AttributeError", FirstUnset(agent, ModelFields("Agent")))]
  ELSE Construct("HRIAgent",
                 Kwargs(agent,
                        {<<"mbox", "mbox">>, <<"identifier", "identifier">>,
                         <<"name", "name">>, <<"homepage", "homepage">>},
                        {<<"spatial", "spatial">>, <<"type", "type">>,
                         <<"publisher_type", "publisher_type">>,
                         <<"publisher_note", "publisher_note">>}),
                 h)

\* CreateHRIVCard that never passes contact_page.
CreateHRIVCard_NoPage(kind, h) ==
  IF FirstUnset(kind, ModelFields("Kind")) # ""
  THEN [n |-> None, h |-> h,
        err |-> Error("AttributeError", FirstUnset(kind, ModelFields("Kind")))]
  ELSE Construct("HRIVCard",
                 Kwargs(kind, {<<"hasEmail", "hasEmail">>, <<"formatted_name", "fn">>}, {}), h)

CreateHRIVCard(kind, h) ==
  IF FirstUnset(kind, ModelFields("Kind")) # ""
  THEN [n |-> None, h |-> h,
        err |-> Error("AttributeError", FirstUnset(kind, ModelFields("Kind")))]
  ELSE Construct("HRIVCard",
                 Kwargs(kind,
                        {<<"hasEmail", "hasEmail">>, <<"formatted_name", "fn">>},
                        {<<"contact_page", "hasUrl">>}),
                 h)

\* The two passes have one shape: generic is Agent or Kind.
PromotedClass(generic) == IF generic = "Agent" THEN "HRIAgent" ELSE "HRIVCard"

CreatePromoted(generic, node, h) ==
  IF generic = "Agent" THEN CreateHRIAgent(node, h) ELSE CreateHRIVCard(node, h)

NotInList(generic) ==
  IF generic = "Agent" THEN "Encountered not Agent or HRIAgent in list"
  ELSE "Encountered not Kind or VCard in list"

\* IsA with the promoted classes taken as subclasses of the generic ones.
IsA_Subclass(v, cls) == IsNode(v) /\ v.cls \in {cls, PromotedClass(cls)}

IsA(v, cls) == IsNode(v) /\ v.cls = cls

RECURSIVE Promote(_, _, _)
RECURSIVE PromoteFrom(_, _, _, _)
RECURSIVE PromoteNew(_, _, _, _, _)
RECURSIVE PromoteElements(_, _, _, _)

\* setattr(FDP_obj, field_name, _create_...(value))
PromoteSet(obj, field_name, made) ==
  IF made.err # NoErr THEN [n |-> obj, h |-> made.h, err |-> made.err]
  ELSE [n |-> SetField(obj, field_name, made.n), h |-> made.h, err |-> NoErr]

\* new.append(_create_...(element)), then the rest of the list.
PromoteAppend(made, a, i, generic, new) ==
  IF made.err # NoErr THEN [l |-> new, h |-> made.h, err |-> made.err]
  ELSE PromoteNew(a, i + 1, made.h, generic, Append(new, made.n))

\* The loop that builds the new list: a generic element is promoted, a
\* promoted one is kept, anything else raises ValueError.
PromoteNew(a, i, h, generic, new) ==
  IF i > Len(h[a]) THEN [l |-> new, h |-> h, err |-> NoErr]
  ELSE IF IsA(h[a][i], generic)
  THEN PromoteAppend(CreatePromoted(generic, h[a][i], h), a, i, generic, new)
  ELSE IF IsA(h[a][i], PromotedClass(generic))
  THEN PromoteNew(a, i + 1, h, generic, Append(new, h[a][i]))
  ELSE [l |-> new, h |-> h, err |-> Error("ValueError", NotInList(generic))]

\* setattr(FDP_obj, field_name, new): the field holds a list of its own.
PromoteSetList(obj, field_name, built) ==
  IF built.err # NoErr THEN [n |-> obj, h |-> built.h, err |-> built.err]
  ELSE [n |-> SetField(obj, field_name, ListRef(Len(built.h) + 1)),
        h |-> Append(built.h, built.l), err |-> NoErr]

\* The pass on a nested model changes it where it is.
PromoteNested(obj, field_name, sub) ==
  [n |-> SetField(obj, field_name, sub.n), h |-> sub.h, err |-> sub.err]

\* PromoteElements that leaves the elements of a list alone.
PromoteElements_NoRecursion(a, i, h, generic) == [h |-> h, err |-> NoErr]

PromoteElementsRest(sub, a, i, generic) ==
  IF sub.err # NoErr THEN [h |-> [sub.h EXCEPT ![a][i] = sub.n], err |-> sub.err]
  ELSE PromoteElements(a, i + 1, [sub.h EXCEPT ![a][i] = sub.n], generic)

\* for v in value: if isinstance(v, BaseModel): the pass on v
PromoteElements(a, i, h, generic) ==
  IF i > Len(h[a]) THEN [h |-> h, err |-> NoErr]
  ELSE IF ~IsNode(h[a][i]) THEN PromoteElements(a, i + 1, h, generic)
  ELSE PromoteElementsRest(Promote(h[a][i], h, generic), a, i, generic)

\* One iteration of the loop of the pass.
PromoteField(obj, field_name, h, generic) ==
  IF ~HasAttr(obj, field_name)
  THEN [n |-> obj, h |-> h, err |-> Error("AttributeError", field_name)]
  ELSE IF IsA(obj.f[field_name], generic)
  THEN PromoteSet(obj, field_name, CreatePromoted(generic, obj.f[field_name], h))
  ELSE IF IsList(obj.f[field_name])
          /\ \E i \in 1..Len(h[obj.f[field_name].a]) : IsA(h[obj.f[field_name].a][i], generic)
  THEN PromoteSetList(obj, field_name, PromoteNew(obj.f[field_name].a, 1, h, generic, <<>>))
  ELSE IF IsNode(obj.f[field_name])
  THEN PromoteNested(obj, field_name, Promote(obj.f[field_name], h, generic))
  ELSE IF IsList(obj.f[field_name])
  THEN InObject(obj, PromoteElements(obj.f[field_name].a, 1, h, generic))
  ELSE [n |-> obj, h |-> h, err |-> NoErr]

PromoteRest(r, i, generic) ==
  IF r.err # NoErr THEN r ELSE PromoteFrom(r.n, i + 1, r.h, generic)

PromoteFrom(obj, i, h, generic) ==
  IF i > Len(ModelFields(obj.cls)) THEN [n |-> obj, h |-> h, err |-> NoErr]
  ELSE PromoteRest(PromoteField(obj, ModelFields(obj.cls)[i], h, generic), i, generic)

Promote(obj, h, generic) == PromoteFrom(obj, 1, h, generic)

\* _agent_to_HRIAgent(FDP_obj)
AgentToHRIAgent(obj, h) == Promote(obj, h, "Agent")

\* _kind_to_HRIVCard(FDP_obj)
KindToHRIVCard(obj, h) == Promote(obj, h, "Kind")

\* transform_FDP: _agent_to_HRIAgent(self), then _kind_to_HRIVCard(self)
ThenKinds(agents) == IF agents.err # NoErr THEN agents ELSE KindToHRIVCard(agents.n, agents.h)

Promotion(obj, h) == ThenKinds(AgentToHRIAgent(obj, h))

----------------------------------------------------------------------------
(* MetadataRecord._drop_none, MetadataRecord.validate *)

\* The snapshot of a model object is a plain dict; the model keeps with it the
\* class it was made from, which the schema validator finds from the schema.
Snap(cls, items) == [t |-> "dict", d |-> items, cls |-> cls]

NullInRequired == "Likely put null or null equivalent value in required field"

RECURSIVE DropNone(_, _)
RECURSIVE DropFields(_, _, _, _)
RECURSIVE DropList(_, _, _, _)
RECURSIVE DropItems(_, _, _, _)

\* result[name] = _drop_none(value), then the next field.
DropFieldsRest(sub, data, i, h, result) ==
  IF sub.err # NoErr THEN sub
  ELSE DropFields(data, i + 1, h, Append(result, KV(ModelFields(data.cls)[i], sub.v)))

\* DropFields that keeps a field only when its value is not None.
DropFields_NotNoneOnly(data, i, h, result) ==
  IF i > Len(ModelFields(data.cls)) THEN [v |-> Snap(data.cls, result), err |-> NoErr]
  ELSE IF ~HasAttr(data, ModelFields(data.cls)[i])
  THEN [v |-> None, err |-> Error("ValueError", NullInRequired)]
  ELSE IF data.f[ModelFields(data.cls)[i]] # None
  THEN DropFieldsRest(DropNone(data.f[ModelFields(data.cls)[i]], h), data, i, h, result)
  ELSE DropFields(data, i + 1, h, result)

\* DropFields that passes over a field that is not set.
DropFields_SkipUnset(data, i, h, result) ==
  IF i > Len(ModelFields(data.cls)) THEN [v |-> Snap(data.cls, result), err |-> NoErr]
  ELSE IF ~HasAttr(data, ModelFields(data.cls)[i]) THEN DropFields(data, i + 1, h, result)
  ELSE IF data.f[ModelFields(data.cls)[i]] # None
          \/ ModelFields(data.cls)[i] \in RequiredFields(data.cls)
  THEN DropFieldsRest(DropNone(data.f[ModelFields(data.cls)[i]], h), data, i, h, result)
  ELSE DropFields(data, i + 1, h, result)

\* for name, field in data.model_fields.items(): getattr raises on a field
\* that is not set; a field is kept when not None or required.
DropFields(data, i, h, result) ==
  IF i > Len(ModelFields(data.cls)) THEN [v |-> Snap(data.cls, result), err |-> NoErr]
  ELSE IF ~HasAttr(data, ModelFields(data.cls)[i])
  THEN [v |-> None, err |-> Error("ValueError", NullInRequired)]
  ELSE IF data.f[ModelFields(data.cls)[i]] # None
          \/ ModelFields(data.cls)[i] \in RequiredFields(data.cls)
  THEN DropFieldsRest(DropNone(data.f[ModelFields(data.cls)[i]], h), data, i, h, result)
  ELSE DropFields(data, i + 1, h, result)

DropListRest(sub, l, i, h, result) ==
  IF sub.err # NoErr THEN sub ELSE DropList(l, i + 1, h, Append(result, sub.v))

\* [_drop_none(v) for v in data if v is not None]
DropList(l, i, h, result) ==
  IF i > Len(l) THEN [v |-> L(result), err |-> NoErr]
  ELSE IF l[i] = None THEN DropList(l, i + 1, h, result)
  ELSE DropListRest(DropNone(l[i], h), l, i, h, result)

DropItemsRest(sub, d, i, h, result) ==
  IF sub.err # NoErr THEN sub ELSE DropItems(d, i + 1, h, Append(result, KV(d[i].k, sub.v)))

\* {k: _drop_none(v) for k, v in data.items() if v is not None}
DropItems(d, i, h, result) ==
  IF i > Len(d) THEN [v |-> Dict(result), err |-> NoErr]
  ELSE IF d[i].v = None THEN DropItems(d, i + 1, h, result)
  ELSE DropItemsRest(DropNone(d[i].v, h), d, i, h, result)

\* _drop_none(data)
DropNone(data, h) ==
  CASE IsNode(data) -> DropFields(data, 1, h, <<>>)
    [] data.t = "dict" -> DropItems(data.d, 1, h, <<>>)
    [] IsList(data) -> DropList(h[data.a], 1, h, <<>>)
    [] OTHER -> [v |-> data, err |-> NoErr]

\* type(self).model_validate(cleaned, strict=True), as far as the mandatory
\* fields go: each is there and is not None, in every snapshot of a model.
RECURSIVE MandatoryThere(_)
MandatoryThere(v) ==
  CASE v.t = "dict" ->
         /\ "cls" \in DOMAIN v =>
              \A x \in RequiredFields(v.cls) : HasKey(v.d, x) /\ Lookup(v.d, x) # None
         /\ \A i \in 1..Len(v.d) : MandatoryThere(v.d[i].v)
    [] v.t = "llist" -> \A i \in 1..Len(v.l) : MandatoryThere(v.l[i])
    [] OTHER -> TRUE

ModelValidate(cleaned) ==
  IF MandatoryThere(cleaned) THEN NoErr ELSE Error("ValidationError", cleaned.cls)

\* The fields config and api_data of the record, which the model keeps apart.
WithInputs(cleaned, cfg, api) ==
  IF cleaned.err # NoErr THEN cleaned
  ELSE [v |-> Snap(cleaned.v.cls,
                   cleaned.v.d
                     \o (IF cfg.v = None THEN <<>> ELSE <<KV("config", cfg.v)>>)
                     \o (IF api.v = None THEN <<>> ELSE <<KV("api_data", api.v)>>)),
        err |-> NoErr]

\* cleaned = MetadataRecord._drop_none(self)
Cleaned(obj, cfg, api, h) == WithInputs(DropNone(obj, h), DropNone(cfg, h), DropNone(api, h))

Validated(cleaned) ==
  IF cleaned.err # NoErr THEN cleaned ELSE [v |-> cleaned.v, err |-> ModelValidate(cleaned.v)]

\* self.validate()
Validate(obj, cfg, api, h) == Validated(Cleaned(obj, cfg, api, h))

----------------------------------------------------------------------------
(* The inputs: the configuration and the payload of the test fixtures, one  *)
(* entry of one of them replaced (tests.py: config, api_data,              *)
(* adapted_instance). A list is written L(<<...>>) and becomes a list      *)
(* object of the heap when the input is loaded.                            *)

Sx == Str(<<"x">>)

Sy == Str(<<"y">>)

SHeal == Str(<<"H","E","A","L">>)

SEnglish == Str(<<"e","n","g","l","i","s","h">>)

SEn == Str(<<"E","n">>)

SPublic == Str(<<"P","u","b","l","i","c">>)

SNonPublic == Str(<<"n","o","n","_","p","u","b","l","i","c">>)

SCc0 == Str(<<"c","c","0">>)

KindConfig == Dict(<< KV("hasEmail", Str(<<"e","@","x">>)), KV("fn", Str(<<"D","T">>)) >>)

AgentConfig(name) ==
  Dict(<< KV("mbox", Str(<<"m","@","x">>)), KV("identifier", L(<<Str(<<"i","d">>)>>)),
          KV("name", L(<<Str(name)>>)), KV("homepage", Str(<<"h","p">>)) >>)

BaseConfig ==
  Dict(<< KV("catalog", Dict(<<
    KV("mapping", Dict(<< KV("challenge_title", Names(<<"title">>)) >>)),
    KV("contact_point", KindConfig),
    KV("publisher", AgentConfig(<<"u">>)),
    KV("license", SCc0),
    KV("dataset", Dict(<<
      KV("mapping", Dict(<< KV("archive_title", Names(<<"title">>)),
                            KV("challenge_url", Names(<<"identifier">>)),
                            KV("challenge_keywords", Names(<<"keyword">>)) >>)),
      KV("access_rights", SNonPublic),
      KV("contact_point", KindConfig),
      KV("creator", AgentConfig(<<"d","m">>)),
      KV("publisher", AgentConfig(<<"u","d">>)),
      KV("keyword", L(<<Str(<<"T","e","s","t">>)>>)),
      KV("theme", L(<<SHeal>>)),
      KV("distribution", Dict(<<
        KV("mapping", Dict(<< KV("distribution_access_url", Names(<<"access_url">>)) >>)),
        KV("license", SCc0) >>)) >>)) >>)) >>)

BaseApi ==
  Dict(<< KV("challenge_title", Str(<<"T","c">>)),
          KV("archive_title", Str(<<"T","a">>)),
          KV("challenge_url", Str(<<"u","r","l">>)),
          KV("challenge_keywords", L(<<Str(<<"M","e","d">>), Str(<<"k","2">>)>>)),
          KV("distribution_access_url", Str(<<"d","1">>)) >>)

\* d[path[0]]...[path[-1]] = value
RECURSIVE SetPath(_, _, _)
SetPath(d, path, value) ==
  LET key == Head(path)
      new == IF Len(path) = 1 THEN value
             ELSE SetPath(Lookup(d.d, key), Tail(path), value)
  IN IF HasKey(d.d, key)
     THEN Dict([i \in 1..Len(d.d) |-> IF d.d[i].k = key THEN KV(key, new) ELSE d.d[i]])
     ELSE Dict(Append(d.d, KV(key, new)))

\* The values tried under a structural key; target is a field of its class.
StructuralValues(target) ==
  { Sx, None, Int(0), Int(5), L(<<>>), L(<<Sx>>), Dict(<<>>),
    Dict(<< KV(target, L(<<Sy>>)),
            KV("mapping", Dict(<< KV("challenge_title", Names(<<target>>)) >>)) >>) }

StructuralPatches ==
  UNION {
    { [path |-> <<"catalog">>, value |-> v] : v \in StructuralValues("title") },
    { [path |-> <<"catalog", "dataset">>, value |-> v] : v \in StructuralValues("title") },
    { [path |-> <<"catalog", "dataset", "distribution">>, value |-> v] :
        v \in StructuralValues("title") },
    { [path |-> <<"catalog", "creator">>, value |-> v] : v \in StructuralValues("name") },
    { [path |-> <<"catalog", "dataset", "creator">>, value |-> v] :
        v \in StructuralValues("name") },
    { [path |-> <<"catalog", "publisher">>, value |-> v] : v \in StructuralValues("name") },
    { [path |-> <<"catalog", "dataset", "contact_point">>, value |-> v] :
        v \in StructuralValues("hasUrl") } }

MappingPatches ==
  { [path |-> p, value |-> v] :
      p \in { <<"mapping">>, <<"catalog", "mapping">>, <<"catalog", "dataset", "mapping">>,
              <<"catalog", "dataset", "distribution", "mapping">>,
              <<"catalog", "publisher", "mapping">> },
      v \in { None, Sx, Int(0), L(<<>>), L(<<Sx>>), Dict(<<>>),
               Dict(<< KV("challenge_title", Names(<<"title">>)),
                       KV("archive_title", Names(<<"title">>)) >>),
               Dict(<< KV("challenge_keywords", Names(<<"keyword", "keyword">>)) >>),
               Dict(<< KV("missing_key", Names(<<"title">>)) >>) } }

\* Raw labels of the field's vocabulary, where it has one.
GoodRaw(field) ==
  CASE field = "theme" -> <<SHeal, Str(<<"t","e","c","h">>)>>
    [] field = "language" -> <<SEnglish, Str(<<"n","L","D">>)>>
    [] field = "legal_basis" -> <<Str(<<"I","C">>), Sx>>
    [] field = "access_rights" -> <<SPublic, SNonPublic>>
    [] field = "status" -> <<Str(<<"c","o","m","p","l","e","t","e","d">>), Str(<<"W","i","t","h","d","r","a","w","n">>)>>
    [] field = "frequency" -> <<Str(<<"d","a","i","l","y">>), Str(<<"D","A","I","L","Y">>)>>
    [] field = "license" -> <<SCc0, Str(<<"C","C","0">>)>>
    [] OTHER -> <<Sx, Sy>>

LeafValues(field) ==
  LET g == GoodRaw(field)
  IN { None, Str(<<>>), Int(0), Dict(<<>>), L(<<>>),
       g[1], g[2], SEn,
       L(<<g[1]>>), L(<<g[1], g[2]>>), L(<<g[2], SEn>>), L(<<SEn>>),
       L(<<L(<<g[1]>>)>>), L(<<L(<<g[1], g[2]>>)>>),
       Str(<<"e">>), L(<<Str(<<>>)>>), L(<<None>>) }

LeafPatches ==
  UNION { { [path |-> p, value |-> v] : v \in LeafValues(p[Len(p)]) } :
          p \in { <<"catalog", "dataset", f>> :
                    f \in {"theme", "language", "legal_basis", "access_rights", "status",
                           "frequency", "identifier", "purpose", "keyword", "title"} }
                \cup { <<"catalog", f>> : f \in {"license", "language", "homepage"} }
                \cup { <<"catalog", "dataset", "distribution", f>> :
                         f \in {"license", "language", "status"} }
                \cup { <<"catalog", "publisher", "publisher_type">>,
                       <<"catalog", "dataset", "contact_point", "hasUrl">>,
                       <<"catalog", "dataset", "contact_point", "fn">> } }

ApiPatches ==
  { [path |-> <<k>>, value |-> v] :
      k \in {"challenge_title", "archive_title", "challenge_url", "challenge_keywords",
             "distribution_access_url"},
      v \in { None, Str(<<>>), Int(0), L(<<>>), Sx, Int(5), L(<<Sx>>), L(<<Sx, Sy>>),
               L(<<L(<<Sx>>)>>) } }

\* Model objects built by their constructors, as the tests put them in lists:
\* every field is set, the ones not given to None.
Object(cls, given) ==
  [t |-> "node", cls |-> cls,
   f |-> [x \in FieldNames(cls) |-> IF HasKey(given, x) THEN Lookup(given, x) ELSE None]]

\* The objects of the tests, one of each class.
ObjectOf(cls) ==
  CASE cls = "Agent" ->
         Object(cls, << KV("mbox", Str(<<"d","@","x">>)), KV("identifier", L(<<Str(<<"i","d">>)>>)),
                        KV("name", L(<<Str(<<"n">>)>>)), KV("homepage", Str(<<"h","p">>)) >>)
    [] cls = "HRIAgent" ->
         Object(cls, << KV("name", L(<<Str(<<"n">>)>>)), KV("identifier", L(<<Str(<<"i","d">>)>>)),
                        KV("mbox", Str(<<"e","@","x">>)), KV("homepage", Str(<<"h","p">>)) >>)
    [] cls = "Kind" ->
         Object(cls, << KV("hasEmail", Str(<<"e","@","x">>)), KV("fn", Str(<<"n">>)) >>)
    [] cls = "HRIVCard" ->
         Object(cls, << KV("hasEmail", Str(<<"e","@","x">>)), KV("formatted_name", Str(<<"n">>)) >>)

\* The lists tried under an agent field (generic, promoted) = (Agent, HRIAgent)
\* and under a contact field (generic, promoted) = (Kind, HRIVCard).
ObjectLists(generic, promoted) ==
  { L(<<generic>>), L(<<promoted>>), L(<<generic, promoted>>), L(<<promoted, generic>>),
    L(<<generic, promoted, Str(<<"r","a","n","d","o","m">>)>>),
    L(<<promoted, Str(<<"r","a","n","d","o","m">>)>>),
    L(<<Str(<<"r","a","n","d","o","m">>), generic>>),
    L(<<Str(<<"r","a","n","d","o","m">>)>>) }

ObjectPatches ==
  { [path |-> p, value |-> v] :
      p \in { <<"catalog", "publisher">>, <<"catalog", "dataset", "creator">> },
      v \in ObjectLists(ObjectOf("Agent"), ObjectOf("HRIAgent")) }
  \cup { [path |-> p, value |-> v] :
           p \in { <<"catalog", "contact_point">>, <<"catalog", "dataset", "contact_point">> },
           v \in ObjectLists(ObjectOf("Kind"), ObjectOf("HRIVCard")) }

\* The (config, api_data) pairs a record is created from.
Inputs ==
  { [config |-> BaseConfig, api |-> BaseApi],
    [config |-> BaseConfig, api |-> None],
    [config |-> None, api |-> BaseApi],
    [config |-> Dict(<<>>), api |-> BaseApi],
    [config |-> SetPath(BaseConfig, <<"catalog", "dataset", "distribution", "status">>,
                        Enum("DistributionStatus", "completed")),
     api |-> BaseApi],
    [config |-> Dict(<< KV("catalog", Dict(<< KV("dataset", Dict(<<
                          KV("mapping", Dict(<< KV("archive_title", Names(<<"title">>)) >>)),
                          KV("keyword", L(<<Str(<<"T","e","s","t">>)>>)) >>)) >>)) >>),
     api |-> Dict(<< KV("archive_title", Str(<<"T","i","t","l","e"," ","X">>)) >>)] }
  \cup { [config |-> SetPath(BaseConfig, p.path, p.value), api |-> BaseApi] :
           p \in StructuralPatches \cup MappingPatches \cup LeafPatches \cup ObjectPatches }
  \cup { [config |-> SetPath(BaseConfig, p.path, p.value), api |-> None] :
           p \in StructuralPatches \cup MappingPatches \cup LeafPatches }
  \cup { [config |-> BaseConfig, api |-> SetPath(BaseApi, p.path, p.value)] : p \in ApiPatches }

\* Building the objects of an input: every list becomes a list object.
RECURSIVE Load(_, _)
RECURSIVE LoadSeq(_, _, _)
RECURSIVE LoadItems(_, _, _)
RECURSIVE LoadFields(_, _, _)
NewList(els) == [v |-> ListRef(Len(els.h) + 1), h |-> Append(els.h, els.l)]

NewDict(its) == [v |-> Dict(its.l), h |-> its.h]

Load(v, h) ==
  CASE v.t = "llist" -> NewList(LoadSeq(v.l, 1, h))
    [] v.t = "dict" -> NewDict(LoadItems(v.d, 1, h))
    [] v.t = "node" -> LoadFields(v, 1, h)
    [] OTHER -> [v |-> v, h |-> h]

Cons(x, rest) == [l |-> <<x>> \o rest.l, h |-> rest.h]

LoadSeqRest(first, l, i) == Cons(first.v, LoadSeq(l, i + 1, first.h))

LoadSeq(l, i, h) ==
  IF i > Len(l) THEN [l |-> <<>>, h |-> h]
  ELSE LoadSeqRest(Load(l[i], h), l, i)

LoadFieldsRest(first, node, i) ==
  LoadFields(SetField(node, ModelFields(node.cls)[i], first.v), i + 1, first.h)

LoadFields(node, i, h) ==
  IF i > Len(ModelFields(node.cls)) THEN [v |-> node, h |-> h]
  ELSE LoadFieldsRest(Load(node.f[ModelFields(node.cls)[i]], h), node, i)

LoadItemsRest(first, d, i) == Cons(KV(d[i].k, first.v), LoadItems(d, i + 1, first.h))

LoadItems(d, i, h) ==
  IF i > Len(d) THEN [l |-> <<>>, h |-> h]
  ELSE LoadItemsRest(Load(d[i].v, h), d, i)

----------------------------------------------------------------------------
(* The state machine *)

Init ==
  \E in \in Inputs :
    LET c == Load(in.config, <<>>)
        a == Load(in.api, c.h)
    IN /\ config = c.v
       /\ api_data = a.v
       /\ heap = a.h
       /\ heap0 = a.h
       /\ rec = NoRecord
       /\ err = NoErr
       /\ warned = <<>>
       /\ hist = <<>>
       /\ extraAllow \in BOOLEAN
       /\ snapshot = NoSnapshot
       /\ rec2 = NoRecord
       /\ err2 = NoErr
       /\ hist2 = <<>>

\* fdp = MetadataRecord.create_FDP_instance(config, api_data)
Create ==
  /\ hist = <<>>
  /\ LET r == CreateFDPInstance(config, api_data, heap, extraAllow)
     IN /\ rec' = r.n
        /\ heap' = r.h
        /\ err' = r.err
  /\ hist' = <<"create">>
  /\ UNCHANGED <<config, api_data, heap0, warned, extraAllow, snapshot, rec2, err2, hist2>>

CanCall == hist # <<>> /\ rec # NoRecord /\ err = NoErr /\ Len(hist) <= MaxOps

\* The place of a call in transform_FDP followed by validate.
Stage(op) ==
  CASE op = "create" -> 0
    [] op = "ensure_lists" -> 1
    [] op = "string_to_enum" -> 2
    [] op = "promotion" -> 3
    [] op = "validate" -> 4

\* The calls on one record come in the order of transform_FDP, any of them
\* left out or repeated, and validate after them.
InOrder(op) == Stage(hist[Len(hist)]) <= Stage(op)

\* MetadataRecord._ensure_lists(fdp)
CallEnsureLists ==
  /\ CanCall
  /\ InOrder("ensure_lists")
  /\ LET r == EnsureLists(rec, heap, warned)
     IN /\ rec' = r.n
        /\ heap' = r.h
        /\ warned' = r.w
        /\ err' = r.err
  /\ hist' = Append(hist, "ensure_lists")
  /\ UNCHANGED <<config, api_data, heap0, extraAllow, snapshot, rec2, err2, hist2>>

\* MetadataRecord._string_to_enum(fdp)
CallStringToEnum ==
  /\ CanCall
  /\ InOrder("string_to_enum")
  /\ LET r == StringToEnum(rec, heap)
     IN /\ rec' = r.n
        /\ heap' = r.h
        /\ err' = r.err
  /\ hist' = Append(hist, "string_to_enum")
  /\ UNCHANGED <<config, api_data, heap0, warned, extraAllow, snapshot, rec2, err2, hist2>>

\* MetadataRecord._agent_to_HRIAgent(fdp); MetadataRecord._kind_to_HRIVCard(fdp)
CallPromotion ==
  /\ CanCall
  /\ InOrder("promotion")
  /\ LET r == Promotion(rec, heap)
     IN /\ rec' = r.n
        /\ heap' = r.h
        /\ err' = r.err
  /\ hist' = Append(hist, "promotion")
  /\ UNCHANGED <<config, api_data, heap0, warned, extraAllow, snapshot, rec2, err2, hist2>>

\* fdp.validate()
CallValidate ==
  /\ CanCall
  /\ InOrder("validate")
  /\ LET r == Validate(rec, config, api_data, heap)
     IN /\ snapshot' = (IF r.v = None THEN NoSnapshot ELSE r.v)
        /\ err' = r.err
  /\ hist' = Append(hist, "validate")
  /\ UNCHANGED <<config, api_data, heap, heap0, rec, warned, extraAllow, rec2, err2, hist2>>

Next == Create \/ CallEnsureLists \/ CallStringToEnum \/ CallPromotion \/ CallValidate

Spec == Init /\ [][Next]_vars

----------------------------------------------------------------------------
(* Two records made from one configuration object and one payload, their   *)
(* calls interleaved. The list objects of the configuration are the same   *)
(* objects for both.                                                       *)

\* One call of the pipeline on the object obj.
Apply(op, obj, h) ==
  CASE op = "ensure_lists" -> EnsureLists(obj, h, <<>>)
    [] op = "string_to_enum" -> StringToEnum(obj, h)
    [] op = "promotion" -> Promotion(obj, h)
    [] op = "validate" -> [n |-> obj, h |-> h, err |-> Validate(obj, config, api_data, h).err]

\* The fixture, and the fixture with a list or a scalar in a vocabulary field.
InitTwo ==
  \E in \in { [config |-> BaseConfig, api |-> BaseApi] }
             \cup UNION { { [config |-> SetPath(BaseConfig, <<"catalog", "dataset", f>>, v),
                             api |-> BaseApi] :
                              v \in { GoodRaw(f)[1], L(<<GoodRaw(f)[1]>>),
                                      L(<<GoodRaw(f)[1], GoodRaw(f)[2]>>) } } :
                           f \in {"theme", "language", "keyword"} } :
    LET c == Load(in.config, <<>>)
        a == Load(in.api, c.h)
    IN /\ config = c.v
       /\ api_data = a.v
       /\ heap = a.h
       /\ heap0 = a.h
       /\ rec = NoRecord
       /\ err = NoErr
       /\ warned = <<>>
       /\ hist = <<>>
       /\ extraAllow = TRUE
       /\ snapshot = NoSnapshot
       /\ rec2 = NoRecord
       /\ err2 = NoErr
       /\ hist2 = <<>>

\* fdp2 = MetadataRecord.create_FDP_instance(config, api_data)
Create2 ==
  /\ hist2 = <<>>
  /\ LET r == CreateFDPInstance(config, api_data, heap, extraAllow)
     IN /\ rec2' = r.n
        /\ heap' = r.h
        /\ err2' = r.err
  /\ hist2' = <<"create">>
  /\ UNCHANGED <<config, api_data, heap0, rec, err, warned, hist, extraAllow, snapshot>>

\* A call of the pipeline on the second record, in the order of the first's.
Call2 ==
  \E op \in {"ensure_lists", "string_to_enum", "promotion", "validate"} :
    /\ hist2 # <<>> /\ rec2 # NoRecord /\ err2 = NoErr /\ Len(hist2) <= MaxOps
    /\ Stage(hist2[Len(hist2)]) <= Stage(op)
    /\ LET r == Apply(op, rec2, heap)
       IN /\ rec2' = r.n
          /\ heap' = r.h
          /\ err2' = r.err
    /\ hist2' = Append(hist2, op)
    /\ UNCHANGED <<config, api_data, heap0, rec, err, warned, hist, extraAllow, snapshot>>

NextTwo == Next \/ Create2 \/ Call2

SpecTwo == InitTwo /\ [][NextTwo]_vars

----------------------------------------------------------------------------
(* Helpers of the properties *)

Last(s) == s[Len(s)]

\* The record was created and the call just made returned.
Created == hist = <<"create">> /\ err = NoErr /\ rec # NoRecord

\* This step is a call of pass op that follows a call of op that returned.
SecondRun(op) ==
  /\ Len(hist) >= 2
  /\ Last(hist) = op
  /\ err = NoErr
  /\ hist' = Append(hist, op)

----------------------------------------------------------------------------
(* C1 *)

\* C1: the vocabulary pass is idempotent: after a run of _string_to_enum that
\* returned, a second run returns too and changes no field of any node and no
\* element of any list.
C1_VocabularyIdempotent ==
  [][SecondRun("string_to_enum") => (err' = NoErr /\ rec' = rec /\ heap' = heap)]_vars

----------------------------------------------------------------------------
(* C2 *)

\* C2: no stage changes in place a list of the configuration or of the
\* payload: each list that existed before the record was created holds the
\* elements it held then.
C2_InputListsUnchanged == \A a \in 1..Len(heap0) : heap[a] = heap0[a]

----------------------------------------------------------------------------
(* C3, C4, C5: the Mapping Resolver *)

Absent == [t |-> "absent"]

\* cfg[key] where cfg is a dict that has the key.
Get(cfg, key) == IF cfg.t = "dict" /\ HasKey(cfg.d, key) THEN Lookup(cfg.d, key) ELSE Absent

\* node.<field> where there is such a model object.
Child(node, field) ==
  IF node.t = "node" /\ HasAttr(node, field) THEN node.f[field] ELSE Absent

DatasetConfig == Get(Get(config, "catalog"), "dataset")

DatasetNode == Child(Child(rec, "catalog"), "dataset")

\* The (entry, position) pairs of a mapping directive that name internal field
\* f and whose external key holds a non-falsy value in the payload.
LiveTargets(mapping, f) ==
  IF mapping.t # "dict" \/ api_data.t # "dict" THEN {}
  ELSE { p \in (1..Len(mapping.d)) \X (1..2) :
           /\ mapping.d[p[1]].v.t = "names"
           /\ p[2] <= Len(mapping.d[p[1]].v.l)
           /\ mapping.d[p[1]].v.l[p[2]] = f
           /\ HasKey(api_data.d, mapping.d[p[1]].k)
           /\ Truthy(Lookup(api_data.d, mapping.d[p[1]].k), heap0) }

\* The payload value of the one live entry that names f.
LiveValue(mapping, f) ==
  Lookup(api_data.d, mapping.d[(CHOOSE p \in LiveTargets(mapping, f) : TRUE)[1]].k)

\* The dataset's configuration holds a keyword list and its mapping names
\* keyword once, for an external key whose payload value is a non-empty list.
KeywordMapped ==
  /\ Created
  /\ Get(DatasetConfig, "keyword").t = "list"
  /\ Cardinality(LiveTargets(Get(DatasetConfig, "mapping"), "keyword")) = 1
  /\ LiveValue(Get(DatasetConfig, "mapping"), "keyword").t = "list"

\* C3: keyword accumulation: the node's keyword is the configured elements
\* followed by the payload's, in a list of its own, and the configuration's
\* list holds what it held.
C3_KeywordAccumulation ==
  KeywordMapped =>
    /\ Child(DatasetNode, "keyword").t = "list"
    /\ heap[Child(DatasetNode, "keyword").a] =
         heap0[Get(DatasetConfig, "keyword").a]
           \o heap0[LiveValue(Get(DatasetConfig, "mapping"), "keyword").a]
    /\ heap[Get(DatasetConfig, "keyword").a] = heap0[Get(DatasetConfig, "keyword").a]

\* C3's case: [a] in the configuration, [c, d] in the payload, [a, c, d] on the node.
C3_Witness ==
  /\ KeywordMapped
  /\ Len(heap0[Get(DatasetConfig, "keyword").a]) = 1
  /\ Len(heap[Child(DatasetNode, "keyword").a]) = 3

\* The value the last live entry naming f writes.
LastLiveValue(mapping, f) ==
  LET live == LiveTargets(mapping, f)
      last == CHOOSE p \in live : \A q \in live : q[1] < p[1] \/ (q[1] = p[1] /\ q[2] <= p[2])
  IN Lookup(api_data.d, mapping.d[last[1]].k)

MappingTargets(mapping) ==
  IF mapping.t # "dict" THEN {}
  ELSE UNION { IF mapping.d[i].v.t = "names"
               THEN {mapping.d[i].v.l[j] : j \in 1..Len(mapping.d[i].v.l)} ELSE {} :
               i \in 1..Len(mapping.d) }

\* The directive of cfg is applied to node, and so are the directives of the
\* sub-trees under the keys the Filler descends into, to the matching children.
RECURSIVE MappingApplied(_, _)
MappingApplied(node, cfg) ==
  /\ \A f \in MappingTargets(Get(cfg, "mapping")) :
       (LiveTargets(Get(cfg, "mapping"), f) # {} /\ ~(f = "keyword" /\ Get(cfg, "keyword").t = "list"))
         => Child(node, f) = LastLiveValue(Get(cfg, "mapping"), f)
  /\ \A i \in 1..Len(cfg.d) :
       (cfg.d[i].k \in FillerKeys /\ cfg.d[i].v.t = "dict")
         => /\ Child(node, cfg.d[i].k).t = "node"
            /\ MappingApplied(Child(node, cfg.d[i].k), cfg.d[i].v)

\* C4: the Resolver descends wherever the Filler does: a mapping directive
\* under any of catalog, dataset, distribution, creator, publisher and
\* contact_point is applied to the matching child node.
C4_ResolverMirrorsFiller ==
  (Created /\ config.t = "dict" /\ api_data.t = "dict") => MappingApplied(rec, config)

\* What _fill_fields alone leaves.
Filled == FillFields(ModelConstruct("MetadataRecord"), config, heap0, extraAllow).n

\* Every field of node that no live mapping entry names is as the Filler left
\* it in filled, here and in the children.
RECURSIVE KeepsFilled(_, _, _)
KeepsFilled(node, filled, cfg) ==
  /\ DOMAIN node.f \ MappingTargets(Get(cfg, "mapping")) =
       DOMAIN filled.f \ MappingTargets(Get(cfg, "mapping"))
  /\ \A f \in DOMAIN filled.f :
       IF Get(cfg, f).t = "dict" /\ f \in FillerKeys
       THEN Child(node, f).t = "node" /\ KeepsFilled(node.f[f], filled.f[f], Get(cfg, f))
       ELSE LiveTargets(Get(cfg, "mapping"), f) = {} => Child(node, f) = filled.f[f]

----------------------------------------------------------------------------
(* C6, C7, C8: the Filler *)

\* No model object of the tree under node has a field named mapping.
RECURSIVE NoMappingField(_)
NoMappingField(node) ==
  /\ "mapping" \notin DOMAIN node.f
  /\ \A f \in DOMAIN node.f : node.f[f].t = "node" => NoMappingField(node.f[f])

\* C6: the Filler never writes a field named mapping: whatever the
\* configuration holds under a mapping key, _fill_fields makes no attempt to
\* set it, and no node of the record it leaves has a mapping field.
C6_MappingNeverWritten ==
  hist = <<"create">> =>
    /\ err # Error("ValueError", "mapping")
    /\ rec # NoRecord => NoMappingField(rec)

\* The record as _fill_fields returned it: no payload, so no Resolver.
FilledOnly == Created /\ config.t = "dict" /\ api_data = None

\* The field is as model_construct left it: unset when required, else None.
DefaultStays(node, key) ==
  IF key \in RequiredFields(node.cls) THEN ~HasAttr(node, key) ELSE Child(node, key) = None

\* The leaf rule as stated for every value: written when non-empty, the
\* default kept when falsy or empty.
RECURSIVE LeafRule(_, _)
LeafRule(node, cfg) ==
  \A i \in 1..Len(cfg.d) :
    IF cfg.d[i].k \in FillerKeys
    THEN cfg.d[i].v.t = "dict" => LeafRule(node.f[cfg.d[i].k], cfg.d[i].v)
    ELSE cfg.d[i].k # "mapping" =>
           IF Truthy(cfg.d[i].v, heap0)
           THEN Child(node, cfg.d[i].k) = cfg.d[i].v
           ELSE DefaultStays(node, cfg.d[i].k)

\* C7 as stated: a leaf key is written with the configured value when that
\* is non-empty and is not written when it is falsy or empty, the empty
\* sequence included.
C7_LeafRuleAsStated == FilledOnly => LeafRule(rec, config)

\* The leaf rule with sequences apart: a sequence is written whatever it
\* holds; any other value is written when non-empty.
RECURSIVE LeafRuleSequences(_, _)
LeafRuleSequences(node, cfg) ==
  \A i \in 1..Len(cfg.d) :
    IF cfg.d[i].k \in FillerKeys
    THEN cfg.d[i].v.t = "dict" => LeafRuleSequences(node.f[cfg.d[i].k], cfg.d[i].v)
    ELSE cfg.d[i].k # "mapping" =>
           IF cfg.d[i].v.t = "list" \/ Truthy(cfg.d[i].v, heap0)
           THEN Child(node, cfg.d[i].k) = cfg.d[i].v
           ELSE DefaultStays(node, cfg.d[i].k)

\* C7: a leaf key is written with exactly the configured value when that is
\* a sequence, empty or not, or any other non-empty value; it is not written,
\* and the schema default stays, when the value is None, "", 0 or {}.
C7_LeafRule == FilledOnly => LeafRuleSequences(rec, config)

\* C7's case: purpose: [] in the dataset's configuration, and the dataset's
\* purpose is that empty list.
C7_Witness ==
  /\ FilledOnly
  /\ Get(DatasetConfig, "purpose").t = "list"
  /\ heap0[Get(DatasetConfig, "purpose").a] = <<>>
  /\ Child(DatasetNode, "purpose") = Get(DatasetConfig, "purpose")

\* Somewhere on the Filler's way a structural key holds neither a dict nor a
\* list.
RECURSIVE HasScalarStructural(_)
HasScalarStructural(cfg) ==
  \E i \in 1..Len(cfg.d) :
    /\ cfg.d[i].k \in FillerKeys
    /\ \/ cfg.d[i].v.t \notin {"dict", "list"}
       \/ cfg.d[i].v.t = "dict" /\ HasScalarStructural(cfg.d[i].v)

\* C8: a str, a number or None under a structural key makes _fill_fields
\* raise AttributeError, and create_FDP_instance returns no record.
C8_StructuralFailure ==
  (hist = <<"create">> /\ config.t = "dict" /\ HasScalarStructural(config))
    => (err.kind = "AttributeError" /\ rec = NoRecord)

\* C8's case: creator: None in the dataset's configuration.
C8_Witness ==
  /\ hist = <<"create">>
  /\ Get(DatasetConfig, "creator") = None
  /\ err = Error("AttributeError", "items")
  /\ rec = NoRecord

----------------------------------------------------------------------------
(* C9, C10: the cardinality pass *)

\* This step is a call of _ensure_lists.
EnsureStep == hist' = Append(hist, "ensure_lists")

FieldSet(cls) == {ModelFields(cls)[i] : i \in 1..Len(ModelFields(cls))}

\* Every declared field of the objects the pass visits is set.
RECURSIVE AllSet(_)
AllSet(node) ==
  \A f \in FieldSet(node.cls) :
    HasAttr(node, f) /\ (node.f[f].t = "node" => AllSet(node.f[f]))

\* The scalar-declared fields of the visited objects that hold a list whose
\* length is in lens.
RECURSIVE ListsInScalars(_, _, _)
ListsInScalars(node, h, lens) ==
  UNION { IF node.f[f].t = "node" THEN ListsInScalars(node.f[f], h, lens)
          ELSE IF ~IsListType(node.cls, f) /\ IsList(node.f[f]) /\ Len(h[node.f[f].a]) \in lens
          THEN {f} ELSE {} :
          f \in FieldSet(node.cls) \cap DOMAIN node.f }

\* The warnings of one run, in the order of the visit.
RECURSIVE Unwraps(_, _, _)
Unwraps(node, i, h) ==
  IF i > Len(ModelFields(node.cls)) THEN <<>>
  ELSE (IF node.f[ModelFields(node.cls)[i]].t = "node"
        THEN Unwraps(node.f[ModelFields(node.cls)[i]], 1, h)
        ELSE IF ~IsListType(node.cls, ModelFields(node.cls)[i])
                /\ IsList(node.f[ModelFields(node.cls)[i]])
                /\ Len(h[node.f[ModelFields(node.cls)[i]].a]) = 1
        THEN <<ModelFields(node.cls)[i]>> ELSE <<>>)
       \o Unwraps(node, i + 1, h)

\* Field by field, new is old after a run that returned: h and h2 are the
\* lists before and after.
RECURSIVE ShapeOK(_, _, _, _)
ShapeField(cls, f, v, v2, h, h2) ==
  IF v.t = "node"
  THEN IF IsListType(cls, f)
       THEN /\ IsList(v2)
            /\ Len(h2[v2.a]) = 1
            /\ h2[v2.a][1].t = "node"
            /\ ShapeOK(v, h2[v2.a][1], h, h2)
       ELSE v2.t = "node" /\ ShapeOK(v, v2, h, h2)
  ELSE IF v = None THEN v2 = None
  ELSE IF IsList(v) /\ IsListType(cls, f) THEN v2 = v /\ h2[v.a] = h[v.a]
  ELSE IF IsList(v) THEN Len(h[v.a]) < 2 /\ (Len(h[v.a]) = 1 => v2 = h[v.a][1])
  ELSE IF IsListType(cls, f) THEN IsList(v2) /\ h2[v2.a] = <<v>>
  ELSE v2 = v

ShapeOK(old, new, h, h2) ==
  \A f \in FieldSet(old.cls) : ShapeField(old.cls, f, old.f[f], new.f[f], h, h2)

\* C9: one run of _ensure_lists. When it returns, every field is: the one
\* element of the list it held, if declared scalar, with a warning for each
\* such field; [v] for the non-None non-list v it held, if declared a list;
\* what it was, if None or of the declared cardinality. A scalar-declared
\* field holding two or more elements makes the run raise TypeError naming
\* such a field.
C9_CardinalityBoundary ==
  [][EnsureStep =>
       /\ err' = NoErr =>
            /\ ShapeOK(rec, rec', heap, heap')
            /\ warned' = warned \o Unwraps(rec, 1, heap)
       /\ (AllSet(rec) /\ ListsInScalars(rec, heap, {0}) = {}
             /\ ListsInScalars(rec, heap, Nat \ {0, 1}) # {})
            => /\ err'.kind = "TypeError"
               /\ err'.info \in ListsInScalars(rec, heap, Nat \ {0, 1})]_vars

\* C9's case: a run returned, having unwrapped a one-element list with a
\* warning and wrapped the catalog's dataset.
C9_Witness ==
  /\ hist = <<"create", "ensure_lists">>
  /\ err = NoErr
  /\ warned # <<>>
  /\ Child(Child(rec, "catalog"), "dataset").t = "list"

\* C10: the cardinality pass is idempotent: after a run of _ensure_lists that
\* returned, a second run returns too and changes no field.
C10_CardinalityIdempotent ==
  [][SecondRun("ensure_lists") => (err' = NoErr /\ rec' = rec)]_vars

----------------------------------------------------------------------------
(* C11 *)

\* Every set, non-None field of node holds a list exactly when it is declared
\* a list, and so for the models nested in its fields and in the lists its
\* fields hold.
RECURSIVE CardinalityOK(_, _)
CardinalityOK(node, h) ==
  \A f \in FieldSet(node.cls) \cap DOMAIN node.f :
    node.f[f] # None =>
      /\ IsList(node.f[f]) <=> IsListType(node.cls, f)
      /\ IsNode(node.f[f]) => CardinalityOK(node.f[f], h)
      /\ IsList(node.f[f]) =>
           \A i \in 1..Len(h[node.f[f].a]) :
             IsNode(h[node.f[f].a][i]) => CardinalityOK(h[node.f[f].a][i], h)

\* The call just made is a run of _ensure_lists that returned.
EnsureReturned == Len(hist) >= 2 /\ Last(hist) = "ensure_lists" /\ err = NoErr

\* C11: whenever _ensure_lists returns, the cardinality of every non-None
\* field of every model object reachable in the record matches the declared
\* shape of the field.
C11_PostCardinality == EnsureReturned => CardinalityOK(rec, heap)

----------------------------------------------------------------------------
(* C12: the table-lookup fields *)

\* This step is a call of _string_to_enum.
StringToEnumStep == hist' = Append(hist, "string_to_enum")

TableFields == {"access_rights", "theme", "license", "status", "frequency"}

\* The table _string_to_enum hands to _to_enum for the field.
TableOf(f) ==
  CASE f = "access_rights" -> "access_rights"
    [] f = "theme" -> "themes"
    [] f = "license" -> "licenses"
    [] f = "status" -> "statuses"
    [] f = "frequency" -> "frequencies"

\* Every declared field is set, in node and in the models the pass visits from
\* it: those its fields hold and those the lists of its fields hold.
RECURSIVE AllSetDeep(_, _)
AllSetDeep(node, h) ==
  \A f \in FieldSet(node.cls) :
    /\ HasAttr(node, f)
    /\ IsNode(node.f[f]) => AllSetDeep(node.f[f], h)
    /\ IsList(node.f[f]) =>
         \A i \in 1..Len(h[node.f[f].a]) :
           IsNode(h[node.f[f].a][i]) => AllSetDeep(h[node.f[f].a][i], h)

\* The raw strings the table-lookup fields hold, each with its table: the
\* non-empty str a field holds, and for theme the str elements of its list.
RECURSIVE RawStrings(_, _)
RawStrings(node, h) ==
  UNION { IF IsNode(node.f[f]) THEN RawStrings(node.f[f], h)
          ELSE IF IsList(node.f[f])
          THEN UNION { IF IsNode(h[node.f[f].a][i]) THEN RawStrings(h[node.f[f].a][i], h)
                       ELSE IF f = "theme" /\ h[node.f[f].a][i].t = "str"
                       THEN {[kind |-> "themes", value |-> h[node.f[f].a][i]]}
                       ELSE {} : i \in 1..Len(h[node.f[f].a]) }
          ELSE IF f \in TableFields /\ node.f[f].t = "str" /\ node.f[f].s # <<>>
          THEN {[kind |-> TableOf(f), value |-> node.f[f]]}
          ELSE {} :
          f \in FieldSet(node.cls) \cap DOMAIN node.f }

UnknownRaw(node, h) ==
  {u \in RawStrings(node, h) : ~HasKey(Table(u.kind), Lower(u.value.s))}

\* The vocabulary fields hold nothing but raw strings, and no language is
\* shorter than three characters: only a table miss can make the pass fail.
RECURSIVE RawOnly(_, _)
RawOnly(node, h) ==
  \A f \in FieldSet(node.cls) \cap DOMAIN node.f :
    Truthy(node.f[f], h) =>
      /\ IsNode(node.f[f]) => RawOnly(node.f[f], h)
      /\ IsList(node.f[f]) =>
           \A i \in 1..Len(h[node.f[f].a]) :
             IsNode(h[node.f[f].a][i]) => RawOnly(h[node.f[f].a][i], h)
      /\ f \in TableFields \ {"theme"} => node.f[f].t = "str"
      /\ f = "theme" =>
           \/ node.f[f].t = "str"
           \/ IsList(node.f[f]) /\ \A i \in 1..Len(h[node.f[f].a]) : h[node.f[f].a][i].t = "str"
      /\ f = "language" =>
           \/ node.f[f].t = "str" /\ Len(node.f[f].s) >= 3
           \/ /\ IsList(node.f[f])
              /\ \A i \in 1..Len(h[node.f[f].a]) :
                   h[node.f[f].a][i].t = "str" /\ Len(h[node.f[f].a][i].s) >= 3

\* table[lowercase(s)] is there and v2 is it.
IsLookup(f, s, v2) ==
  HasKey(Table(TableOf(f)), Lower(s)) /\ v2 = Lookup(Table(TableOf(f)), Lower(s))

\* new is old with every raw string of a table-lookup field replaced by the
\* value of the table; h and h2 are the lists before and after.
RECURSIVE LookedUp(_, _, _, _)
LookedUpField(f, v, v2, h, h2) ==
  IF IsNode(v) THEN IsNode(v2) /\ LookedUp(v, v2, h, h2)
  ELSE IF IsList(v)
  THEN \A i \in 1..Len(h[v.a]) :
         IF IsNode(h[v.a][i]) THEN LookedUp(h[v.a][i], h2[v.a][i], h, h2)
         ELSE (f = "theme" /\ h[v.a][i].t = "str") => IsLookup(f, h[v.a][i].s, h2[v.a][i])
  ELSE (f \in TableFields /\ v.t = "str" /\ v.s # <<>>) => IsLookup(f, v.s, v2)

LookedUp(old, new, h, h2) ==
  \A f \in FieldSet(old.cls) : LookedUpField(f, old.f[f], new.f[f], h, h2)

----------------------------------------------------------------------------
(* C13: language *)

\* The raw strings the language fields hold: the non-empty str of a field and
\* the str elements of its list.
RECURSIVE LanguageStrings(_, _)
LanguageStrings(node, h) ==
  UNION { IF IsNode(node.f[f]) THEN LanguageStrings(node.f[f], h)
          ELSE IF IsList(node.f[f])
          THEN UNION { IF IsNode(h[node.f[f].a][i]) THEN LanguageStrings(h[node.f[f].a][i], h)
                       ELSE IF f = "language" /\ h[node.f[f].a][i].t = "str"
                       THEN {h[node.f[f].a][i].s}
                       ELSE {} : i \in 1..Len(h[node.f[f].a]) }
          ELSE IF f = "language" /\ node.f[f].t = "str" /\ node.f[f].s # <<>>
          THEN {node.f[f].s}
          ELSE {} :
          f \in FieldSet(node.cls) \cap DOMAIN node.f }

\* The vocabulary fields hold nothing but raw strings, of any length.
RECURSIVE RawShape(_, _)
RawShape(node, h) ==
  \A f \in FieldSet(node.cls) \cap DOMAIN node.f :
    Truthy(node.f[f], h) =>
      /\ IsNode(node.f[f]) => RawShape(node.f[f], h)
      /\ IsList(node.f[f]) =>
           \A i \in 1..Len(h[node.f[f].a]) :
             IsNode(h[node.f[f].a][i]) => RawShape(h[node.f[f].a][i], h)
      /\ f \in TableFields \ {"theme"} => node.f[f].t = "str"
      /\ f \in {"theme", "language"} =>
           \/ node.f[f].t = "str"
           \/ IsList(node.f[f]) /\ \A i \in 1..Len(h[node.f[f].a]) : h[node.f[f].a][i].t = "str"

\* The authority's URI for the raw value s.
LanguageUri(s) == Str(LanguageBase \o Upper(Prefix(s, 3)))

\* new is old with every raw language replaced by its URI.
RECURSIVE LanguagesDone(_, _, _, _)
LanguageDone(f, v, v2, h, h2) ==
  IF IsNode(v) THEN IsNode(v2) /\ LanguagesDone(v, v2, h, h2)
  ELSE IF IsList(v)
  THEN \A i \in 1..Len(h[v.a]) :
         IF IsNode(h[v.a][i]) THEN LanguagesDone(h[v.a][i], h2[v.a][i], h, h2)
         ELSE (f = "language" /\ h[v.a][i].t = "str")
                => (Len(h[v.a][i].s) >= 3 /\ h2[v.a][i] = LanguageUri(h[v.a][i].s))
  ELSE (f = "language" /\ v.t = "str" /\ v.s # <<>>)
         => (Len(v.s) >= 3 /\ v2 = LanguageUri(v.s))

LanguagesDone(old, new, h, h2) ==
  \A f \in FieldSet(old.cls) : LanguageDone(f, old.f[f], new.f[f], h, h2)

----------------------------------------------------------------------------
(* C14: lists of theme, language and legal_basis *)

\* The type an element of the field has once canonical.
CanonicalClass(f) == IF f = "theme" THEN "DatasetTheme" ELSE "AnyHttpUrl"

\* e2 is the canonical form of the element e of a list of field f, made from
\* e alone; a canonical e is kept.
ElementDone(f, e, e2) ==
  IF IsInstance(e, CanonicalClass(f)) THEN e2 = e
  ELSE e.t = "str" =>
         CASE f = "theme" -> IsLookup(f, e.s, e2)
           [] f = "language" -> e2 = LanguageUri(e.s)
           [] f = "legal_basis" -> e2 = Str(LegalBasisBase \o e.s)

\* In new every list of theme, language and legal_basis holds, position by
\* position, the canonical forms of the elements it held in old.
RECURSIVE ElementWise(_, _, _, _)
ElementWiseField(f, v, v2, h, h2) ==
  IF IsNode(v) THEN IsNode(v2) /\ ElementWise(v, v2, h, h2)
  ELSE IsList(v) =>
         /\ v2 = v
         /\ Len(h2[v.a]) = Len(h[v.a])
         /\ \A i \in 1..Len(h[v.a]) :
              IF IsNode(h[v.a][i]) THEN ElementWise(h[v.a][i], h2[v.a][i], h, h2)
              ELSE f \in {"theme", "language", "legal_basis"}
                     => ElementDone(f, h[v.a][i], h2[v.a][i])

ElementWise(old, new, h, h2) ==
  \A f \in FieldSet(old.cls) : ElementWiseField(f, old.f[f], new.f[f], h, h2)

\* C14: element-wise conversion. When _string_to_enum returns, a list held by
\* theme, language or legal_basis has its length and order, each raw element
\* replaced by the canonical form of that element alone (for legal_basis the
\* namespace, "#" and the element), each canonical element as it was.
C14_ElementWise ==
  [][(StringToEnumStep /\ err' = NoErr) => ElementWise(rec, rec', heap, heap')]_vars

----------------------------------------------------------------------------
(* C15: canonical scalars *)

VocabularyFields ==
  {"access_rights", "theme", "language", "license", "legal_basis", "status", "frequency"}

\* The canonical type of the vocabulary field.
TargetClass(f) ==
  CASE f = "access_rights" -> "AccessRights"
    [] f = "theme" -> "DatasetTheme"
    [] f = "status" -> "DatasetStatus"
    [] OTHER -> "AnyHttpUrl"

\* Every vocabulary field that holds something holds a canonical value, or a
\* list of canonical values.
RECURSIVE CanonicalOnly(_, _)
CanonicalOnly(node, h) ==
  \A f \in FieldSet(node.cls) \cap DOMAIN node.f :
    Truthy(node.f[f], h) =>
      /\ IsNode(node.f[f]) => CanonicalOnly(node.f[f], h)
      /\ IsList(node.f[f]) =>
           \A i \in 1..Len(h[node.f[f].a]) :
             /\ IsNode(h[node.f[f].a][i]) => CanonicalOnly(h[node.f[f].a][i], h)
             /\ f \in VocabularyFields => IsInstance(h[node.f[f].a][i], TargetClass(f))
      /\ (f \in VocabularyFields /\ ~IsList(node.f[f])) => IsInstance(node.f[f], TargetClass(f))

\* C15: canonical values are fixed points: on a record whose vocabulary
\* fields hold canonical values only, _string_to_enum returns and changes
\* nothing.
C15_CanonicalFixedPoint ==
  [][(StringToEnumStep /\ AllSetDeep(rec, heap) /\ CanonicalOnly(rec, heap))
       => (err' = NoErr /\ rec' = rec /\ heap' = heap)]_vars

----------------------------------------------------------------------------
(* The promotion pass *)

PromotionStep == hist' = Append(hist, "promotion")

Generic == {"Agent", "Kind"}

Promoted == {"HRIAgent", "HRIVCard"}

\* No generic Agent and no generic Kind under v (fields of nodes, elements of lists).
RECURSIVE NoGeneric(_, _)
NoGeneric(v, h) ==
  CASE IsNode(v) -> v.cls \notin Generic /\ \A x \in DOMAIN v.f : NoGeneric(v.f[x], h)
    [] IsList(v) -> \A i \in 1..Len(h[v.a]) : NoGeneric(h[v.a][i], h)
    [] OTHER -> TRUE

\* Two values that are equal once their lists are read from their heaps.
RECURSIVE SameValue(_, _, _, _)
SameValue(v, v2, h, h2) ==
  CASE IsNode(v) ->
         /\ IsNode(v2) /\ v2.cls = v.cls /\ DOMAIN v2.f = DOMAIN v.f
         /\ \A x \in DOMAIN v.f : SameValue(v.f[x], v2.f[x], h, h2)
    [] IsList(v) ->
         /\ IsList(v2) /\ Len(h2[v2.a]) = Len(h[v.a])
         /\ \A i \in 1..Len(h[v.a]) : SameValue(h[v.a][i], h2[v2.a][i], h, h2)
    [] OTHER -> v2 = v

\* The field of the promoted representation that holds the generic node's field x.
PromotedField(x) ==
  CASE x = "fn" -> "formatted_name"
    [] x = "hasUrl" -> "contact_page"
    [] OTHER -> x

\* v2 is the promoted representation of the generic node v.
Represents(v, v2, h, h2) ==
  /\ IsNode(v2)
  /\ v2.cls = (IF v.cls = "Agent" THEN "HRIAgent" ELSE "HRIVCard")
  /\ DOMAIN v2.f = {PromotedField(x) : x \in FieldSet(v.cls)}
  /\ \A x \in FieldSet(v.cls) : SameValue(v.f[x], v2.f[PromotedField(x)], h, h2)

\* v2 is v with every generic node replaced by its promoted representation,
\* and everything else, the promoted nodes included, as it was.
RECURSIVE Replaced(_, _, _, _)
Replaced(v, v2, h, h2) ==
  CASE IsNode(v) /\ v.cls \in Generic -> Represents(v, v2, h, h2)
    [] IsNode(v) /\ v.cls \in Promoted -> SameValue(v, v2, h, h2)
    [] IsNode(v) /\ v.cls \notin Generic \cup Promoted ->
         /\ IsNode(v2) /\ v2.cls = v.cls /\ DOMAIN v2.f = DOMAIN v.f
         /\ \A x \in DOMAIN v.f : Replaced(v.f[x], v2.f[x], h, h2)
    [] IsList(v) ->
         /\ IsList(v2) /\ Len(h2[v2.a]) = Len(h[v.a])
         /\ \A i \in 1..Len(h[v.a]) : Replaced(h[v.a][i], h2[v2.a][i], h, h2)
    [] OTHER -> v2 = v

\* C16: whenever the promotion pass returns without error, no generic Agent
\* and no generic Kind node is reachable from the root: each one held in a
\* scalar field, in a sequence field or inside a nested node (nodes that are
\* elements of sequences included) has been replaced by its promoted
\* representation, and the elements already promoted are kept as they were.
C16_PromotionComplete ==
  [][(PromotionStep /\ err' = NoErr) =>
       /\ NoGeneric(rec', heap')
       /\ Replaced(rec, rec', heap, heap')]_vars

\* A promotion returned on a tree that held a generic node next to a promoted
\* one in a sequence, a generic node in a scalar field, and a generic node
\* inside a node that is an element of a sequence.
C16_Witness ==
  /\ hist = <<"create", "ensure_lists", "promotion">>
  /\ err = NoErr
  /\ IsList(Child(Child(rec, "catalog"), "dataset"))
  /\ Len(heap[Child(Child(rec, "catalog"), "dataset").a]) = 1
  /\ LET dataset == heap[Child(Child(rec, "catalog"), "dataset").a][1]
     IN /\ IsList(Child(dataset, "creator"))
        /\ Len(heap[Child(dataset, "creator").a]) = 2
        /\ \A i \in 1..2 : IsA(heap[Child(dataset, "creator").a][i], "HRIAgent")
        /\ IsA(Child(dataset, "contact_point"), "HRIVCard")
  /\ IsList(Get(DatasetConfig, "creator"))
  /\ IsA(heap0[Get(DatasetConfig, "creator").a][1], "Agent")

AgentFields == {"creator", "publisher"}

ContactFields == {"contact_point"}

\* What a sequence under field x may hold.
LegalClasses(x) == IF x \in AgentFields THEN {"Agent", "HRIAgent"} ELSE {"Kind", "HRIVCard"}

\* The list a holds an element that is not of the classes.
HoldsOther(a, h, classes) == \E i \in 1..Len(h[a]) : ~(IsNode(h[a][i]) /\ h[a][i].cls \in classes)

\* Some agent or contact field under v holds a sequence with an illegal element.
RECURSIVE IllegalElement(_, _)
IllegalElement(v, h) ==
  CASE IsNode(v) ->
         \E x \in DOMAIN v.f :
           \/ x \in AgentFields \cup ContactFields /\ IsList(v.f[x])
                /\ HoldsOther(v.f[x].a, h, LegalClasses(x))
           \/ x \notin AgentFields \cup ContactFields /\ IllegalElement(v.f[x], h)
    [] IsList(v) -> \E i \in 1..Len(h[v.a]) : IllegalElement(h[v.a][i], h)
    [] OTHER -> FALSE

\* C17: if a sequence-valued agent field (contact field) holds an element that
\* is neither a generic Agent nor a promoted agent (neither a generic Kind nor
\* a promoted card), the promotion pass fails with a ValueError, whatever the
\* other elements of the sequence are.
C17_IllegalElementRejected ==
  [][(PromotionStep /\ IllegalElement(rec, heap)) => err'.kind = "ValueError"]_vars

\* C18: the promotion pass is idempotent: after a run that returned, a second
\* run returns too and leaves every field of every node and every element of
\* every list as it was (the promoted agents and cards, scalar or inside
\* sequences, are neither made again nor changed).
C18_PromotionIdempotent ==
  [][SecondRun("promotion") => (err' = NoErr /\ rec' = rec /\ heap' = heap)]_vars

\* Two runs returned on a tree whose first run promoted a scalar contact and
\* a sequence of a generic and a promoted agent.
C18_Witness ==
  /\ hist = <<"create", "promotion", "promotion">>
  /\ err = NoErr
  /\ IsA(Child(Child(rec, "catalog"), "contact_point"), "HRIVCard")
  /\ IsList(Child(Child(rec, "catalog"), "publisher"))
  /\ Len(heap[Child(Child(rec, "catalog"), "publisher").a]) = 2
  /\ \A i \in 1..2 : IsA(heap[Child(Child(rec, "catalog"), "publisher").a][i], "HRIAgent")
  /\ IsList(Get(Get(config, "catalog"), "publisher"))
  /\ IsA(heap0[Get(Get(config, "catalog"), "publisher").a][1], "Agent")

----------------------------------------------------------------------------
(* The snapshot of validate() *)

\* The fields of node the snapshot has to hold.
Kept(node) == {x \in FieldSet(node.cls) : node.f[x] # None \/ x \in RequiredFields(node.cls)}

\* The entries the record has besides its tree: config and api_data.
InputKeys ==
  (IF config = None THEN {} ELSE {"config"}) \cup (IF api_data = None THEN {} ELSE {"api_data"})

RECURSIVE SnapshotOf(_, _, _, _)
RECURSIVE SnapshotOfElements(_, _, _)

\* snap follows the rule for the value v: for a node, exactly the fields to
\* keep, each following the rule; for a list, its elements that are not None,
\* in order, each following the rule; any other value as it is.
SnapshotOf(v, snap, h, more) ==
  CASE IsNode(v) ->
         /\ snap.t = "dict"
         /\ Keys(snap.d) = Kept(v) \cup more
         /\ \A x \in Kept(v) : SnapshotOf(v.f[x], Lookup(snap.d, x), h, {})
    [] IsList(v) -> snap.t = "llist" /\ SnapshotOfElements(h[v.a], snap.l, h)
    [] v.t = "dict" -> snap.t = "dict"
    [] OTHER -> snap = v

SnapshotOfElements(l, sl, h) ==
  IF l = <<>> THEN sl = <<>>
  ELSE IF Head(l) = None THEN SnapshotOfElements(Tail(l), sl, h)
  ELSE /\ sl # <<>>
       /\ SnapshotOf(Head(l), Head(sl), h, {})
       /\ SnapshotOfElements(Tail(l), Tail(sl), h)

\* C19: the snapshot _drop_none builds holds, for every node of the tree at
\* any depth (nested nodes and nodes inside sequences), exactly the fields
\* whose value is not null or that are mandatory: an optional field whose
\* value is null is absent, a mandatory field is present even when null.
C19_SnapshotRule == snapshot # NoSnapshot => SnapshotOf(rec, snapshot, heap, InputKeys)

\* A snapshot was built of a tree whose contact, in a dataset that is an
\* element of a sequence, holds null in the mandatory fn and in the optional
\* hasUrl: the snapshot holds fn and does not hold hasUrl.
C19_Witness ==
  /\ hist = <<"create", "ensure_lists", "validate">>
  /\ snapshot # NoSnapshot
  /\ IsList(Child(Child(rec, "catalog"), "dataset"))
  /\ Len(heap[Child(Child(rec, "catalog"), "dataset").a]) = 1
  /\ LET contact == Child(heap[Child(Child(rec, "catalog"), "dataset").a][1], "contact_point")
         cleaned == Lookup(Lookup(Lookup(snapshot.d, "catalog").d, "dataset").l[1].d,
                           "contact_point")
     IN /\ IsA(contact, "Kind")
        /\ contact.f["fn"] = None
        /\ contact.f["hasUrl"] = None
        /\ HasKey(cleaned.d, "fn")
        /\ Lookup(cleaned.d, "fn") = None
        /\ ~HasKey(cleaned.d, "hasUrl")

----------------------------------------------------------------------------
(* Null in a mandatory and in an optional field, from create to validate *)

CreatedThenValidated == hist = <<"create", "validate">>

Null(v) == v = None \/ v = Str(<<>>)

Empty(v) == IsList(v) /\ heap0[v.a] = <<>>

\* The classes whose configuration _populate_FDP goes through.
ResolvedClasses == {"MetadataRecord", "Catalog", "Dataset", "Distribution"}

\* The payload supplies field f of the node configured by cfg.
ApiSupplies(cfg, cls, f) == cls \in ResolvedClasses /\ LiveTargets(Get(cfg, "mapping"), f) # {}

\* The payload keys mapped to f whose value is null, "" or [].
NullTargets(mapping, f) ==
  IF mapping.t # "dict" \/ api_data.t # "dict" THEN {}
  ELSE { p \in (1..Len(mapping.d)) \X (1..2) :
           /\ mapping.d[p[1]].v.t = "names"
           /\ p[2] <= Len(mapping.d[p[1]].v.l)
           /\ mapping.d[p[1]].v.l[p[2]] = f
           /\ HasKey(api_data.d, mapping.d[p[1]].k)
           /\ LET v == Lookup(api_data.d, mapping.d[p[1]].k) IN Null(v) \/ Empty(v) }

\* The fields supplied without a value, each with the path of its node:
\* by the configuration (how = "config", with the value v written there) when
\* the payload supplies nothing for it, or by the payload (how = "api") when
\* the configuration has no entry for it and no other payload key supplies it.
RECURSIVE NullSites(_, _, _)
NullSites(cfg, cls, path) ==
  UNION { LET k == cfg.d[i].k
              v == cfg.d[i].v
          IN IF k = "mapping" THEN {}
             ELSE IF k \in FillerKeys /\ v.t = "dict"
             THEN NullSites(v, StructuralClass(k), Append(path, k))
             ELSE IF k \in FieldSet(cls) /\ k \notin FillerKeys /\ (Null(v) \/ Empty(v))
                     /\ ~ApiSupplies(cfg, cls, k)
             THEN {[path |-> path, f |-> k, cls |-> cls, how |-> "config", v |-> v]}
             ELSE {} : i \in 1..Len(cfg.d) }
  \cup { [path |-> path, f |-> f, cls |-> cls, how |-> "api", v |-> None] :
           f \in { x \in FieldSet(cls) \ FillerKeys :
                     /\ cls \in ResolvedClasses
                     /\ ~HasKey(cfg.d, x)
                     /\ NullTargets(Get(cfg, "mapping"), x) # {}
                     /\ ~ApiSupplies(cfg, cls, x) } }

Sites == IF config.t = "dict" THEN NullSites(config, "MetadataRecord", <<>>) ELSE {}

Mandatory(site) == site.f \in RequiredFields(site.cls)

RECURSIVE NodeAt(_, _)
NodeAt(node, path) == IF path = <<>> THEN node ELSE NodeAt(Child(node, Head(path)), Tail(path))

RECURSIVE SnapAt(_, _)
SnapAt(snap, path) ==
  IF path = <<>> THEN snap
  ELSE IF snap.t = "dict" /\ HasKey(snap.d, Head(path))
  THEN SnapAt(Lookup(snap.d, Head(path)), Tail(path))
  ELSE Absent

InSnapshot(site) ==
  /\ snapshot # NoSnapshot
  /\ SnapAt(snapshot, site.path).t = "dict"
  /\ HasKey(SnapAt(snapshot, site.path).d, site.f)

\* The optional half: the field is None on the tree, a snapshot that is built
\* does not hold it, and it does not make validate() fail.
OptionalNull(site) ==
  /\ Child(NodeAt(rec, site.path), site.f) = None
  /\ ~InSnapshot(site)
  /\ (\A other \in Sites : ~Mandatory(other)) /\ AllSetDeep(rec, heap) => err = NoErr

\* C20 as stated: for a record created by create_FDP_instance, a mandatory
\* field supplied as null, "" or [] survives the snapshot and validate()
\* fails; an optional field supplied as null or "" is absent from the
\* snapshot and validate() succeeds with the field null on the tree.
C20_MandatoryNullAsStated ==
  CreatedThenValidated =>
    \A site \in Sites :
      /\ Mandatory(site) => (InSnapshot(site) /\ err # NoErr)
      /\ (~Mandatory(site) /\ Null(site.v)) => OptionalNull(site)

\* C20: for a record created by create_FDP_instance, a mandatory field
\* supplied as null or "" in the configuration, or as null, "" or [] by the
\* payload with no configuration value, is never written to the tree: no
\* snapshot is built and validate() fails with the ValueError of _drop_none;
\* supplied as [] in the configuration it is written and a snapshot that is
\* built holds it. An optional field supplied as null or "" is None on the
\* tree, absent from the snapshot, and does not make validate() fail.
C20_MandatoryNull ==
  CreatedThenValidated =>
    \A site \in Sites :
      /\ (Mandatory(site) /\ ~Empty(site.v)) =>
           /\ ~HasAttr(NodeAt(rec, site.path), site.f)
           /\ snapshot = NoSnapshot
           /\ err = Error("ValueError", NullInRequired)
      /\ (Mandatory(site) /\ Empty(site.v)) =>
           /\ Child(NodeAt(rec, site.path), site.f) = site.v
           /\ snapshot # NoSnapshot => InSnapshot(site)
      /\ (~Mandatory(site) /\ Null(site.v)) => OptionalNull(site)

\* validate() was called on a record whose configuration supplies null for
\* the mandatory fn of the dataset's contact.
C20_Witness ==
  /\ CreatedThenValidated
  /\ err = Error("ValueError", NullInRequired)
  /\ \E site \in Sites :
       /\ site.path = <<"catalog", "dataset", "contact_point">>
       /\ site.f = "fn"
       /\ site.how = "config"
       /\ site.v = None

----------------------------------------------------------------------------
(* Two records of one configuration *)

\* The calls ops[i], ops[i + 1], ... made on the result r of the calls before
\* them, as far as they return.
RECURSIVE RunAlone(_, _, _)
RunAlone(ops, i, r) ==
  IF i > Len(ops) \/ r.err # NoErr THEN r
  ELSE RunAlone(ops, i + 1, Apply(ops[i], r.n, r.h))

\* The record r, with outcome e after the calls ops, is what these calls make
\* of the configuration and the payload when no other record exists.
AsAlone(r, e, ops) ==
  ops # <<>> =>
    LET alone == RunAlone(ops, 2, CreateFDPInstance(config, api_data, heap0, extraAllow))
    IN e = alone.err /\ SameValue(r, alone.n, heap, alone.h)

\* C21: when two records are made from the same configuration object and the
\* same payload and their stages are interleaved in any order, each record is
\* in the state, with the error or success, that its own calls alone give: no
\* call on one record changes a field value of the other.
C21_IndependentPipelines == AsAlone(rec, err, hist) /\ AsAlone(rec2, err2, hist2)

----------------------------------------------------------------------------
(* The frame of the Mapping Resolver *)

\* The fields of the node configured by cfg that its directive names with an
\* external key the payload holds with a truthy value.
Written(cfg) ==
  {f \in MappingTargets(Get(cfg, "mapping")) : LiveTargets(Get(cfg, "mapping"), f) # {}}

\* Outside the fields its own directive writes, node has the fields and the
\* values the Filler gave filled, and so has every node under it.
RECURSIVE OnlyWritten(_, _, _)
OnlyWritten(node, filled, cfg) ==
  /\ IsNode(node)
  /\ DOMAIN node.f \ Written(cfg) = DOMAIN filled.f \ Written(cfg)
  /\ \A f \in DOMAIN filled.f \ Written(cfg) :
       IF IsNode(filled.f[f]) /\ Get(cfg, f).t = "dict"
       THEN OnlyWritten(node.f[f], filled.f[f], Get(cfg, f))
       ELSE node.f[f] = filled.f[f]

\* The configuration and the payload of the end-to-end scenario.
Scenario ==
  /\ Get(DatasetConfig, "mapping") = Dict(<< KV("archive_title", Names(<<"title">>)) >>)
  /\ Keys(DatasetConfig.d) = {"mapping", "keyword"}
  /\ api_data = Dict(<< KV("archive_title", Str(<<"T","i","t","l","e"," ","X">>)) >>)

\* C22: the Resolver changes only the fields named by a directive whose
\* external key the payload holds with a non-falsy value, on the node that
\* owns the directive; every other field of every node keeps the value the
\* Filler gave it, and no list of the configuration changes. With the
\* dataset configured by {mapping: {archive_title: [title]}, keyword: [Test]}
\* and the payload {archive_title: 'Title X'}, the dataset node ends with
\* title = 'Title X' and keyword = [Test].
C22_ResolverFrame ==
  (Created /\ config.t = "dict" /\ api_data.t = "dict") =>
    /\ OnlyWritten(rec, Filled, config)
    /\ \A a \in 1..Len(heap0) : heap[a] = heap0[a]
    /\ Scenario =>
         /\ Child(DatasetNode, "title") = Str(<<"T","i","t","l","e"," ","X">>)
         /\ IsList(Child(DatasetNode, "keyword"))
         /\ heap[Child(DatasetNode, "keyword").a] = <<Str(<<"T","e","s","t">>)>>

\* The record of the scenario was created.
C22_Witness ==
  /\ Created
  /\ config.t = "dict"
  /\ Get(Get(config, "catalog"), "dataset") # Absent
  /\ api_data.t = "dict"
  /\ Scenario
  /\ Child(DatasetNode, "title") = Str(<<"T","i","t","l","e"," ","X">>)

----------------------------------------------------------------------------
(* The structural dispatch of the Filler *)

\* node was filled from cfg as the dispatch says: a list is the field's value
\* as it stands; a dict under a structural key gave a node of the key's class
\* that has its defaults outside the keys of the dict and was filled from
\* the dict in the same way.
\* The type of node each structural key stands for.
MatchingType ==
  [k \in FillerKeys |->
     IF k = "catalog" THEN "Catalog"
     ELSE IF k = "dataset" THEN "Dataset"
     ELSE IF k = "distribution" THEN "Distribution"
     ELSE IF k = "contact_point" THEN "Kind" ELSE "Agent"]

RECURSIVE Dispatched(_, _)
Dispatched(node, cfg) ==
  \A i \in 1..Len(cfg.d) :
    IF cfg.d[i].v.t = "list" THEN
      HasAttr(node, cfg.d[i].k) /\ node.f[cfg.d[i].k] = cfg.d[i].v
    ELSE IF cfg.d[i].k \in FillerKeys /\ cfg.d[i].v.t = "dict" THEN
      /\ HasAttr(node, cfg.d[i].k)
      /\ IsNode(node.f[cfg.d[i].k])
      /\ node.f[cfg.d[i].k].cls = MatchingType[cfg.d[i].k]
      /\ \A f \in FieldNames(MatchingType[cfg.d[i].k]) \ Keys(cfg.d[i].v.d) :
           DefaultStays(node.f[cfg.d[i].k], f)
      /\ cfg.d[i].v = Dict(<<>>) =>
           node.f[cfg.d[i].k] = ModelConstruct(MatchingType[cfg.d[i].k])
      /\ Dispatched(node.f[cfg.d[i].k], cfg.d[i].v)
    ELSE TRUE

\* Some structural key of cfg, at any depth, holds a value of the kind t.
RECURSIVE HoldsKind(_, _)
HoldsKind(cfg, t) ==
  \E i \in 1..Len(cfg.d) :
    /\ cfg.d[i].k \in FillerKeys
    /\ \/ cfg.d[i].v.t = t
       \/ cfg.d[i].v.t = "dict" /\ HoldsKind(cfg.d[i].v, t)

\* C23: in a record the Filler made, every structural key whose value is a
\* mapping gave a fresh node of the matching type, empty outside what its
\* sub-tree fills (an empty mapping gives an empty node) and filled from the
\* sub-tree; every key whose value is a sequence, structural or not, holds
\* that very sequence and no child node.
C23_StructuralDispatch ==
  (Created /\ config.t = "dict") => Dispatched(Filled, config)

\* A record was made from a configuration with a sequence under a
\* structural key next to mappings under structural keys.
C23_Witness ==
  /\ Created
  /\ config.t = "dict"
  /\ HoldsKind(config, "list")
  /\ IsNode(DatasetNode)

----------------------------------------------------------------------------
(* The order of the stages in create_FDP_instance *)

\* Every field of node that cfg sets and that a live entry of cfg's directive
\* names holds the payload's value, keyword with a configured list apart; the
\* same in the children under the keys of into.
RECURSIVE ApiOverConfig(_, _, _)
ApiOverConfig(node, cfg, into) ==
  /\ \A f \in MappingTargets(Get(cfg, "mapping")) :
       ( /\ Get(cfg, f) # Absent
         /\ LiveTargets(Get(cfg, "mapping"), f) # {}
         /\ ~(f = "keyword" /\ Get(cfg, "keyword").t = "list") )
         => Child(node, f) = LastLiveValue(Get(cfg, "mapping"), f)
  /\ \A i \in 1..Len(cfg.d) :
       (cfg.d[i].k \in into /\ cfg.d[i].v.t = "dict")
         => /\ Child(node, cfg.d[i].k).t = "node"
            /\ ApiOverConfig(Child(node, cfg.d[i].k), cfg.d[i].v, into)

\* Without a configuration the record is the empty one, whatever the payload.
NoStageRuns ==
  (hist = <<"create">> /\ config = None) =>
    err = NoErr /\ rec = ModelConstruct("MetadataRecord") /\ heap = heap0

\* C24: the Filler is done before the Resolver's first write: every internal
\* field, a sequence-valued keyword apart, that the configuration sets and
\* that is the target of a mapping entry whose external value is non-falsy
\* ends with the API value; and without a configuration neither stage runs
\* and the payload has no effect on the tree.
C24_ApiOverConfig ==
  /\ (Created /\ config.t = "dict" /\ api_data.t = "dict") => ApiOverConfig(rec, config, FillerKeys)
  /\ NoStageRuns

----------------------------------------------------------------------------
(* The fields a promoted node carries *)

\* v2 holds under dst what v holds under src.
Carries(v, v2, h, h2, src, dst) == SameValue(Child(v, src), Child(v2, dst), h, h2)

\* v2 holds under dst what v holds under src when that is not null, and
\* nothing otherwise.
CarriesIfSet(v, v2, h, h2, src, dst) ==
  IF Child(v, src) # None THEN Carries(v, v2, h, h2, src, dst) ELSE Child(v2, dst) = None

\* Wherever v holds a generic Agent or Kind, v2 holds the promoted node with
\* the fields copied from it.
RECURSIVE Copied(_, _, _, _)
Copied(v, v2, h, h2) ==
  CASE IsA(v, "Agent") ->
         /\ IsA(v2, "HRIAgent")
         /\ \A x \in {"mbox", "identifier", "name", "homepage"} : Carries(v, v2, h, h2, x, x)
         /\ \A x \in {"spatial", "type", "publisher_type", "publisher_note"} :
              CarriesIfSet(v, v2, h, h2, x, x)
    [] IsA(v, "Kind") ->
         /\ IsA(v2, "HRIVCard")
         /\ Carries(v, v2, h, h2, "hasEmail", "hasEmail")
         /\ Carries(v, v2, h, h2, "fn", "formatted_name")
         /\ CarriesIfSet(v, v2, h, h2, "hasUrl", "contact_page")
    [] IsNode(v) /\ v.cls \notin Generic ->
         IsNode(v2) /\ \A x \in DOMAIN v.f : Copied(v.f[x], Child(v2, x), h, h2)
    [] IsList(v) ->
         /\ IsList(v2) /\ Len(h2[v2.a]) = Len(h[v.a])
         /\ \A i \in 1..Len(h[v.a]) : Copied(h[v.a][i], h2[v2.a][i], h, h2)
    [] OTHER -> TRUE

\* C25: a promoted agent carries the source's mbox, identifier, name and
\* homepage always and its spatial, type, publisher_type and publisher_note
\* exactly when they are not null; a promoted card carries the source's
\* hasEmail and fn (as formatted_name) always and hasUrl as contact_page
\* exactly when it is not null.
C25_PromotionCopies ==
  [][(PromotionStep /\ err' = NoErr) => Copied(rec, rec', heap, heap')]_vars

\* Some promoted card under v holds a contact page (paged) or holds none.
RECURSIVE HoldsCard(_, _, _)
HoldsCard(v, h, paged) ==
  CASE IsA(v, "HRIVCard") -> (Child(v, "contact_page") # None) = paged
    [] IsNode(v) /\ v.cls # "HRIVCard" -> \E x \in DOMAIN v.f : HoldsCard(v.f[x], h, paged)
    [] IsList(v) -> \E i \in 1..Len(h[v.a]) : HoldsCard(h[v.a][i], h, paged)
    [] OTHER -> FALSE

\* A first promotion returned and left a card with a contact page.
C25_Witness ==
  /\ Len(hist) >= 2
  /\ hist[Len(hist)] = "promotion"
  /\ \A i \in 1..(Len(hist) - 1) : hist[i] # "promotion"
  /\ err = NoErr
  /\ HoldsCard(rec, heap, TRUE)

----------------------------------------------------------------------------
(* The empty sequence in a scalar field *)

\* C26: a scalar-declared field that holds an empty sequence makes the run
\* of _ensure_lists raise TypeError naming a scalar-declared field that
\* holds a sequence of another length than one, as a sequence of two or more
\* elements does; the empty sequence is still in its field afterwards, not
\* replaced by null.
C26_EmptySequenceRejected ==
  [][(EnsureStep /\ AllSet(rec) /\ ListsInScalars(rec, heap, {0}) # {}) =>
       /\ err'.kind = "TypeError"
       /\ err'.info \in ListsInScalars(rec, heap, Nat \ {1})
       /\ ListsInScalars(rec', heap', {0}) = ListsInScalars(rec, heap, {0})]_vars

\* A run raised TypeError for the one scalar-declared field holding a
\* sequence, which is empty.
C26_Witness ==
  /\ hist = <<"create", "ensure_lists">>
  /\ rec # NoRecord
  /\ AllSet(rec)
  /\ err.kind = "TypeError"
  /\ ListsInScalars(rec, heap, Nat \ {1}) = {err.info}
  /\ ListsInScalars(rec, heap, {0}) = {err.info}

----------------------------------------------------------------------------
(* The one status table *)

\* The status v2 a pass that returned leaves for the status v: a falsy value
\* and a DatasetStatus stay, a string becomes the DatasetStatus its
\* lowercased form names, and nothing else lets the pass return.
StatusCanonical(v, v2) ==
  IF v \in {None, Str(<<>>), Int(0)} \/ (v.t = "enum" /\ v.cls = "DatasetStatus") THEN v2 = v
  ELSE /\ v.t = "str"
       /\ HasKey(statuses, Lower(v.s))
       /\ v2 = Lookup(statuses, Lower(v.s))
       /\ v2.t = "enum" /\ v2.cls = "DatasetStatus"

\* The rule holds for the status of every node, of whatever type, in the
\* tree v that the pass left as v2.
RECURSIVE OneStatusTable(_, _, _, _)
OneStatusTable(v, v2, h, h2) ==
  CASE IsNode(v) ->
         /\ IsNode(v2)
         /\ \A x \in DOMAIN v.f :
              IF x = "status" /\ ~IsList(v.f[x]) /\ v.f[x].t # "dict"
              THEN StatusCanonical(v.f[x], Child(v2, x))
              ELSE OneStatusTable(v.f[x], Child(v2, x), h, h2)
    [] IsList(v) ->
         /\ IsList(v2) /\ Len(h2[v2.a]) = Len(h[v.a])
         /\ \A i \in 1..Len(h[v.a]) :
              IsNode(h[v.a][i]) => OneStatusTable(h[v.a][i], h2[v2.a][i], h, h2)
    [] OTHER -> TRUE

\* Some node under v holds a DistributionStatus value as its status.
RECURSIVE HoldsDistributionStatus(_, _)
HoldsDistributionStatus(v, h) ==
  CASE IsNode(v) ->
         \E x \in DOMAIN v.f :
           \/ x = "status" /\ v.f[x].t = "enum" /\ v.f[x].cls = "DistributionStatus"
           \/ HoldsDistributionStatus(v.f[x], h)
    [] IsList(v) ->
         \E i \in 1..Len(h[v.a]) : IsNode(h[v.a][i]) /\ HoldsDistributionStatus(h[v.a][i], h)
    [] OTHER -> FALSE

\* C27: the vocabulary pass canonicalises a raw status on a Dataset and on a
\* Distribution alike through the dataset-status table and takes only a
\* DatasetStatus for canonical: after a pass that returned, every status
\* that was raw is the DatasetStatus of its lowercased form, and a status
\* holding a DistributionStatus value is looked up as raw, so that the pass
\* does not return.
C27_SingleStatusTable ==
  [][StringToEnumStep =>
       /\ err' = NoErr => OneStatusTable(rec, rec', heap, heap')
       /\ HoldsDistributionStatus(rec, heap) => err' # NoErr]_vars

\* A first pass returned and left a DatasetStatus on the distribution, whose
\* configuration holds a raw status.
C27_Witness ==
  /\ hist = <<"create", "string_to_enum">>
  /\ err = NoErr
  /\ Get(Get(DatasetConfig, "distribution"), "status").t = "str"
  /\ Child(Child(DatasetNode, "distribution"), "status").t = "enum"
  /\ Child(Child(DatasetNode, "distribution"), "status").cls = "DatasetStatus"

============================================================================
